---- MODULE Spec2Model ----
(***************************************************************************)
(* pg_replicate: the batching data pipeline (BatchDataPipeline::start and  *)
(* the phases it drives) together with the batch-timeout stream it wraps   *)
(* around the COPY stream of a table and around the CDC stream.            *)
(*                                                                         *)
(* One run of BatchDataPipeline::start is one behaviour.  The source and   *)
(* the sink are ports: every call may succeed or return an error.  Every   *)
(* call is appended to `calls`, the trace of the run.                      *)
(***************************************************************************)
EXTENDS Integers, Sequences, FiniteSets, TLC

(***************************************************************************)
(* Bounds of the model.                                                    *)
(***************************************************************************)
\* largest BatchConfig.max_size tried
MaxBatchSize == 2
\* BatchConfig.max_fill_duration, in clock ticks
MaxFillTicks == 2
\* most items the COPY streams of a run yield, all tables together
MaxRows == 2
\* most items the CDC stream yields before it ends
MaxEvents == 2

\* table ids (relation OIDs) that may occur in the catalog or in the sink state
Tables == {1, 2}

(***************************************************************************)
(* PgLsn: a 64-bit unsigned integer, kept as four 16-bit limbs, most       *)
(* significant first, so that the width of the u64 arithmetic is exact.    *)
(***************************************************************************)
LimbBase == 2 ^ 16
LsnZero == <<0, 0, 0, 0>>
LsnMax == <<LimbBase - 1, LimbBase - 1, LimbBase - 1, LimbBase - 1>>
Lsn(n) == <<0, 0, 0, n>>
\* the last_lsn values a sink may report
LsnValues == {LsnZero, Lsn(100), LsnMax}

\* l + 1 on u64 with the carry propagated; the sum modulo 2^64
WrappingSucc(l) ==
    IF l[4] < LimbBase - 1 THEN <<l[1], l[2], l[3], l[4] + 1>>
    ELSE IF l[3] < LimbBase - 1 THEN <<l[1], l[2], l[3] + 1, 0>>
    ELSE IF l[2] < LimbBase - 1 THEN <<l[1], l[2] + 1, 0, 0>>
    ELSE IF l[1] < LimbBase - 1 THEN <<l[1] + 1, 0, 0, 0>>
    ELSE LsnZero

RECURSIVE LsnPlus(_, _)
\* l + k on u64, modulo 2^64
LsnPlus(l, k) == IF k = 0 THEN l ELSE LsnPlus(WrappingSucc(l), k - 1)

\* a < b on u64
LsnLess(a, b) ==
    \E i \in 1..4 : a[i] < b[i] /\ \A j \in 1..(i - 1) : a[j] = b[j]

(***************************************************************************)
(* Items of the two streams.  An item is a Result: either a value or an    *)
(* error.  `n` is the position of the item in its upstream.                *)
(***************************************************************************)
\* the variants of CdcEvent
CdcEventKinds ==
    {"Begin", "Commit", "Insert", "Update", "Delete", "Relation", "Type",
     "KeepAliveRequested"}
\* the variants the modelled CDC upstream draws from
UpstreamEventKinds == {"Insert", "Commit", "KeepAliveRequested"}

Item(k, i) == [kind |-> k, n |-> i]
IsErr(x) == x.kind = "Err"

\* a boundary test that lets every event end a batch
CdcEventIsLastInBatchAny(kind) == TRUE

\* impl BatchBoundary for CdcEvent
CdcEventIsLastInBatch(kind) == kind \in {"Commit", "KeepAliveRequested"}
\* a boundary test under which no row may end a batch
TableRowIsLastInBatchNever(kind) == FALSE

\* impl BatchBoundary for TableRow
TableRowIsLastInBatch(kind) == TRUE
\* BatchBoundary of a stream item: of the value it carries; an error item may
\* end a batch
is_last_in_batch(x) ==
    CASE x.kind = "Err" -> TRUE
      [] x.kind = "Row" -> TableRowIsLastInBatch(x.kind)
      [] OTHER -> CdcEventIsLastInBatch(x.kind)

VARIABLES
    action,            \* PipelineAction of the run
    table_schemas,     \* source.get_table_schemas(): the ids of the catalog
    batch_config,      \* BatchConfig
    sink_state,        \* the sink's persistent copied_tables and last_lsn,
                       \* and the log records written to it
    wal,               \* the LSNs of the records of the source's log
    history,           \* what earlier runs against this sink did
    resumption_state,  \* what get_resumption_state returned to this run
    pc,                \* position of the task inside start()
    visited,           \* tables the for loop of copy_tables has passed
    cur,               \* table of the current iteration, 0 when none
    items,             \* the stream's in-progress batch
    deadline,          \* ticks since the fill timer was armed, -1: not armed
    stream_ended,      \* the stream has seen its upstream end
    batch,             \* the batch last returned by next()
    received,          \* every item the current stream took from upstream
    emitted,           \* every batch the current stream returned
    age,               \* ticks since the first item of the in-progress batch
                       \* arrived, -1 when the batch is empty
    calls,             \* the port calls of the run, in order
    phase_results,     \* start as a function: what each phase of a run does
    start_traces,      \* start as a function: the calls of each action
    message,           \* the replication message handed to the CDC decoder
    decoder_schemas,   \* the table-schema map handed to the CDC decoder
    decoded,           \* what the CDC decoder returned
    feature,           \* the decimal backend the crate is built with
    raw,               \* the 16-bit words of a binary NUMERIC
    numeric,           \* what PgNumeric::from_sql returned
    cell_impl,         \* the module whose Cell is converted
    cell,              \* the Cell handed to a conversion
    target,            \* the type the Cell is converted to
    converted,         \* what the conversion returned
    copy_row,          \* what the driver has for each column of a COPY row
    copy_schemas,      \* the column schemas handed to the COPY decoder
    table_row,         \* what TableRowConverter::try_from returned
    app_sources,       \* the rows of the table app.sources
    app_sinks,         \* the rows of the table app.sinks
    app_pipelines,     \* the rows of the table app.pipelines
    response,          \* the request the API served last and its status
    sink_config,       \* the SinkConfig handed to into_db_config
    write_key,         \* the encryption key the config is stored under
    read_key,          \* the encryption key the config is read back under
    config_in_db,      \* the SinkConfigInDb that into_db_config returned
    config_read,       \* what into_config returned for config_in_db
    diag_in,           \* two values that differ in a secret field at most
    diag_out           \* what formatting each of the two values wrote

vars ==
    <<action, table_schemas, batch_config, sink_state, resumption_state, pc,
      visited, cur, items, deadline, stream_ended, batch, received, emitted,
      age, calls, wal, history, phase_results, start_traces, message,
      decoder_schemas, decoded, feature, raw, numeric, cell_impl, cell,
      target, converted, copy_row, copy_schemas, table_row, app_sources,
      app_sinks, app_pipelines, response, sink_config, write_key, read_key,
      config_in_db, config_read, diag_in, diag_out>>

\* the variables of start taken as a function of the results of its phases
startvars == <<phase_results, start_traces>>

\* the variables of a call of CdcEventConverter::try_from
decodervars == <<message, decoder_schemas, decoded>>

\* the variables of a call of PgNumeric::from_sql
numvars == <<feature, raw, numeric>>

\* the variables of a call of a conversion of a Cell
cellvars == <<cell_impl, cell, target, converted>>

\* the variables of a call of TableRowConverter::try_from
rowvars == <<copy_row, copy_schemas, table_row>>

\* the variables of the calls of the value conversions
convvars == <<numvars, cellvars, rowvars>>

\* the tables of the management API and its last response
apivars == <<app_sources, app_sinks, app_pipelines, response>>

\* the variables of a store and a read of a sink's configuration
storevars == <<sink_config, write_key, read_key, config_in_db, config_read>>

\* the variables of a formatting of two values
diagvars == <<diag_in, diag_out>>

\* the variables of the management API
mgmtvars == <<apivars, storevars, diagvars>>

PipelineActions == {"TableCopiesOnly", "CdcOnly", "Both"}

Call(op, t, d, ok) == [op |-> op, table |-> t, data |-> d, ok |-> ok]

Log(op, t, d, ok) == calls' = Append(calls, Call(op, t, d, ok))

NoStream ==
    /\ items = <<>>
    /\ deadline = -1
    /\ stream_ended = FALSE
    /\ batch = <<>>
    /\ received = <<>>
    /\ emitted = <<>>
    /\ age = -1

\* BatchTimeoutStream::new
NewStream ==
    /\ items' = <<>>
    /\ deadline' = -1
    /\ stream_ended' = FALSE
    /\ batch' = <<>>
    /\ received' = <<>>
    /\ emitted' = <<>>
    /\ age' = -1

StreamUnchanged ==
    UNCHANGED <<items, deadline, stream_ended, batch, received, emitted, age>>

ConfigUnchanged ==
    UNCHANGED <<action, table_schemas, batch_config, wal, history, startvars,
                decodervars, convvars, mgmtvars>>

NoPhases == <<>>

NoTraces == <<>>

NoMessage == [tag |-> "None"]

NoSchemas == <<>>

NoResult == [res |-> "None"]

\* the decoder is not called
DecoderIdle ==
    /\ message = NoMessage
    /\ decoder_schemas = NoSchemas
    /\ decoded = NoResult

\* PgNumeric::from_sql is not called
NumericIdle ==
    /\ feature = "none"
    /\ raw = <<>>
    /\ numeric = NoResult

\* no Cell is converted
CellIdle ==
    /\ cell_impl = "none"
    /\ cell = NoMessage
    /\ target = NoMessage
    /\ converted = NoResult

\* TableRowConverter::try_from is not called
RowIdle ==
    /\ copy_row = <<>>
    /\ copy_schemas = <<>>
    /\ table_row = NoResult

\* no value conversion is called
ConvIdle ==
    /\ NumericIdle
    /\ CellIdle
    /\ RowIdle

\* the management API has served no request
ApiIdle ==
    /\ app_sources = {}
    /\ app_sinks = {}
    /\ app_pipelines = {}
    /\ response = [op |-> "none", tenant_id |-> "", id |-> 0, source_id |-> 0,
                   sink_id |-> 0, status |-> ""]

\* no sink configuration is stored or read
StoreIdle ==
    /\ sink_config = NoMessage
    /\ write_key = NoMessage
    /\ read_key = NoMessage
    /\ config_in_db = NoResult
    /\ config_read = NoResult

\* nothing is formatted
DiagIdle ==
    /\ diag_in = <<>>
    /\ diag_out = <<>>

\* the management API is not used
MgmtIdle ==
    /\ ApiIdle
    /\ StoreIdle
    /\ DiagIdle

\* the log of the source: MaxEvents records follow the one the sink
\* acknowledged last, at consecutive LSNs
WalAfter(l) == [i \in 1..MaxEvents |-> LsnPlus(l, i)]

\* before the first run: the tables earlier runs marked copied and the LSN
\* they had acknowledged are those the sink holds; no copy was cut short, no
\* table was added
NoHistory(sink) ==
    [marked |-> sink.copied_tables, acked |-> sink.last_lsn,
     retry |-> {}, added |-> {}]

Init ==
    /\ action \in PipelineActions
    /\ table_schemas \in SUBSET Tables
    /\ batch_config \in [max_size : 1..MaxBatchSize, max_fill : {MaxFillTicks}]
    /\ sink_state \in [copied_tables : SUBSET Tables, last_lsn : LsnValues,
                       written : {{}}]
    /\ wal = WalAfter(sink_state.last_lsn)
    /\ history = NoHistory(sink_state)
    /\ resumption_state = [copied_tables |-> {}, last_lsn |-> LsnZero]
    /\ pc = "start"
    /\ visited = {}
    /\ cur = 0
    /\ NoStream
    /\ calls = <<>>
    /\ phase_results = NoPhases
    /\ start_traces = NoTraces
    /\ DecoderIdle
    /\ ConvIdle
    /\ MgmtIdle

(***************************************************************************)
(* start: sink.get_resumption_state                                        *)
(***************************************************************************)
GetResumptionState ==
    /\ pc = "start"
    /\ \/ /\ resumption_state' =
                [copied_tables |-> sink_state.copied_tables,
                 last_lsn |-> sink_state.last_lsn]
          /\ pc' = "schemas"
          /\ Log("get_resumption_state", 0, <<>>, TRUE)
       \/ /\ pc' = "failed"
          /\ Log("get_resumption_state", 0, <<>>, FALSE)
          /\ UNCHANGED resumption_state
    /\ ConfigUnchanged
    /\ StreamUnchanged
    /\ UNCHANGED <<sink_state, visited, cur>>

(***************************************************************************)
(* copy_table_schemas                                                      *)
(***************************************************************************)
\* a copy_table_schemas that writes the schema map even when it is empty
SchemasAreWrittenAlways(schemas) == TRUE

\* `if !table_schemas.is_empty()`
SchemasAreWritten(schemas) == schemas # {}

\* a start that runs the copy phase for TableCopiesOnly alone
AfterSchemasCdcFirst(a) == IF a = "TableCopiesOnly" THEN "tables" ELSE "cdc_open"

\* where start goes after copy_table_schemas
AfterSchemas(a) == IF a = "CdcOnly" THEN "cdc_open" ELSE "tables"

WriteTableSchemas ==
    /\ pc = "schemas"
    /\ SchemasAreWritten(table_schemas)
    /\ \/ /\ pc' = AfterSchemas(action)
          /\ Log("write_table_schemas", 0, <<>>, TRUE)
       \/ /\ pc' = "failed"
          /\ Log("write_table_schemas", 0, <<>>, FALSE)
    /\ ConfigUnchanged
    /\ StreamUnchanged
    /\ UNCHANGED <<sink_state, resumption_state, visited, cur>>

SkipTableSchemas ==
    /\ pc = "schemas"
    /\ ~SchemasAreWritten(table_schemas)
    /\ pc' = AfterSchemas(action)
    /\ ConfigUnchanged
    /\ StreamUnchanged
    /\ UNCHANGED <<sink_state, resumption_state, visited, cur, calls>>

(***************************************************************************)
(* copy_tables                                                             *)
(***************************************************************************)
\* a loop that does not skip on the resumption state
IsSkippedNever(t, copied_tables) == FALSE

\* `if copied_tables.contains(&table_schema.table_id) { continue; }`
IsSkipped(t, copied_tables) == t \in copied_tables

\* an iteration that comes back to tables it has passed
RemainingWithRepeats(schemas, passed) == schemas

\* `for table_schema in table_schemas.values()`: the tables still to visit;
\* the map yields each table once, in an order of its own
Remaining(schemas, passed) == schemas \ passed

\* the for loop reaches a table that is already copied
SkipCopiedTable ==
    /\ pc = "tables"
    /\ \E t \in Remaining(table_schemas, visited) :
          /\ IsSkipped(t, resumption_state.copied_tables)
          /\ visited' = visited \cup {t}
    /\ ConfigUnchanged
    /\ StreamUnchanged
    /\ UNCHANGED <<sink_state, resumption_state, pc, cur, calls>>

\* the for loop reaches a table to copy: sink.truncate_table
TruncateTable ==
    /\ pc = "tables"
    /\ \E t \in Remaining(table_schemas, visited) :
          /\ ~IsSkipped(t, resumption_state.copied_tables)
          /\ \/ /\ pc' = "open_copy"
                /\ cur' = t
                /\ Log("truncate_table", t, <<>>, TRUE)
             \/ /\ pc' = "failed"
                /\ cur' = t
                /\ Log("truncate_table", t, <<>>, FALSE)
    /\ ConfigUnchanged
    /\ StreamUnchanged
    /\ UNCHANGED <<sink_state, resumption_state, visited>>

\* source.get_table_copy_stream, then BatchTimeoutStream::new
GetTableCopyStream ==
    /\ pc = "open_copy"
    /\ \/ /\ pc' = "copying"
          /\ Log("get_table_copy_stream", cur, <<>>, TRUE)
       \/ /\ pc' = "failed"
          /\ Log("get_table_copy_stream", cur, <<>>, FALSE)
    /\ NewStream
    /\ ConfigUnchanged
    /\ UNCHANGED <<sink_state, resumption_state, visited, cur>>

\* a loop body that lets error items through
HasErrorNever(b) == FALSE

\* a loop body that looks at the first item of the batch only
HasErrorFirst(b) == b # <<>> /\ IsErr(b[1])

\* `row.map_err(SourceError::TableCopyStream)?` / `event.map_err(..)?`
HasError(b) == \E i \in 1..Len(b) : IsErr(b[i])

\* the body of the while loop of copy_tables, for the batch in hand
WriteTableRows ==
    /\ pc = "copy_body"
    /\ IF HasError(batch)
       THEN /\ pc' = "failed"
            /\ UNCHANGED calls
       ELSE \/ /\ pc' = "copying"
               /\ Log("write_table_rows", cur, batch, TRUE)
            \/ /\ pc' = "failed"
               /\ Log("write_table_rows", cur, batch, FALSE)
    /\ batch' = <<>>
    /\ ConfigUnchanged
    /\ UNCHANGED <<items, deadline, stream_ended, received, emitted, age>>
    /\ UNCHANGED <<sink_state, resumption_state, visited, cur>>

\* a table_copied whose result is dropped: the loop goes on after an error
TableCopiedUnchecked ==
    /\ pc = "mark_copied"
    /\ \/ /\ sink_state' =
                [sink_state EXCEPT !.copied_tables = @ \cup {cur}]
          /\ Log("table_copied", cur, <<>>, TRUE)
       \/ /\ Log("table_copied", cur, <<>>, FALSE)
          /\ UNCHANGED sink_state
    /\ pc' = "tables"
    /\ visited' = visited \cup {cur}
    /\ cur' = 0
    /\ ConfigUnchanged
    /\ StreamUnchanged
    /\ UNCHANGED resumption_state

\* sink.table_copied after the while loop; the sink persists the table id
TableCopied ==
    /\ pc = "mark_copied"
    /\ \/ /\ pc' = "tables"
          /\ sink_state' =
                [sink_state EXCEPT !.copied_tables = @ \cup {cur}]
          /\ visited' = visited \cup {cur}
          /\ cur' = 0
          /\ Log("table_copied", cur, <<>>, TRUE)
       \/ /\ pc' = "failed"
          /\ Log("table_copied", cur, <<>>, FALSE)
          /\ UNCHANGED <<sink_state, visited, cur>>
    /\ ConfigUnchanged
    /\ StreamUnchanged
    /\ UNCHANGED resumption_state

\* a start that never goes on to CDC after the copy phase
AfterTablesStop(a) == "done"

\* a start that goes on to CDC after the copy phase whatever the action
AfterTablesCdc(a) == "cdc_open"

\* where start goes after copy_tables
AfterTables(a) == IF a = "Both" THEN "cdc_open" ELSE "done"

\* a copy_tables that commits only when its loop copied a table
CommitTransactionIfCopied ==
    /\ pc = "tables"
    /\ Remaining(table_schemas, visited) = {}
    /\ IF \E i \in DOMAIN calls : calls[i].op = "table_copied"
       THEN \/ /\ pc' = AfterTables(action)
               /\ Log("commit_transaction", 0, <<>>, TRUE)
            \/ /\ pc' = "failed"
               /\ Log("commit_transaction", 0, <<>>, FALSE)
       ELSE /\ pc' = AfterTables(action)
            /\ UNCHANGED calls
    /\ ConfigUnchanged
    /\ StreamUnchanged
    /\ UNCHANGED <<sink_state, resumption_state, visited, cur>>

\* source.commit_transaction after the for loop
CommitTransaction ==
    /\ pc = "tables"
    /\ Remaining(table_schemas, visited) = {}
    /\ \/ /\ pc' = AfterTables(action)
          /\ Log("commit_transaction", 0, <<>>, TRUE)
       \/ /\ pc' = "failed"
          /\ Log("commit_transaction", 0, <<>>, FALSE)
    /\ ConfigUnchanged
    /\ StreamUnchanged
    /\ UNCHANGED <<sink_state, resumption_state, visited, cur>>

(***************************************************************************)
(* copy_cdc_events                                                         *)
(***************************************************************************)
\* a copy_cdc_events without the increment
StartLsnSame(last_lsn) == last_lsn

\* `last_lsn += 1` on u64, where the addition does not overflow
StartLsn(last_lsn) == WrappingSucc(last_lsn)

\* source.get_cdc_stream(last_lsn + 1), then BatchTimeoutStream::new
GetCdcStream ==
    /\ pc = "cdc_open"
    /\ resumption_state.last_lsn # LsnMax
    /\ \/ /\ pc' = "cdc"
          /\ Log("get_cdc_stream", 0, StartLsn(resumption_state.last_lsn), TRUE)
       \/ /\ pc' = "failed"
          /\ Log("get_cdc_stream", 0, StartLsn(resumption_state.last_lsn), FALSE)
    /\ NewStream
    /\ ConfigUnchanged
    /\ UNCHANGED <<sink_state, resumption_state, visited, cur>>

\* `last_lsn += 1` at u64::MAX with overflow checks on: the task panics
LsnOverflowPanic ==
    /\ pc = "cdc_open"
    /\ resumption_state.last_lsn = LsnMax
    /\ pc' = "panicked"
    /\ ConfigUnchanged
    /\ StreamUnchanged
    /\ UNCHANGED <<sink_state, resumption_state, visited, cur, calls>>

\* `last_lsn += 1` at u64::MAX with overflow checks off: the sum wraps
LsnOverflowWrap ==
    /\ pc = "cdc_open"
    /\ resumption_state.last_lsn = LsnMax
    /\ \/ /\ pc' = "cdc"
          /\ Log("get_cdc_stream", 0, WrappingSucc(resumption_state.last_lsn), TRUE)
       \/ /\ pc' = "failed"
          /\ Log("get_cdc_stream", 0, WrappingSucc(resumption_state.last_lsn), FALSE)
    /\ NewStream
    /\ ConfigUnchanged
    /\ UNCHANGED <<sink_state, resumption_state, visited, cur>>

\* the start LSN of the CDC stream of the run
CdcStartLsn ==
    calls[CHOOSE i \in DOMAIN calls : calls[i].op = "get_cdc_stream"].data

\* the place in the log of the record at LSN l; past the end when there is
\* no such record
PosOf(l) ==
    IF \E j \in DOMAIN wal : wal[j] = l
    THEN CHOOSE j \in DOMAIN wal : wal[j] = l
    ELSE Len(wal) + 1

\* the place in the log of the n-th item of the CDC stream
WalPos(n) == PosOf(CdcStartLsn) + n - 1

\* the places in the log of the Commit records of the batch b
CommitsOf(b) == {WalPos(b[i].n) : i \in {j \in DOMAIN b : b[j].kind = "Commit"}}

\* the sink applies the batch b: it holds the records of b, and the LSN it
\* reports from now on is that of the last Commit of b, if b has one
SinkWrite(sink, b) ==
    [sink EXCEPT
       !.written = @ \cup {WalPos(b[i].n) : i \in DOMAIN b},
       !.last_lsn =
          IF CommitsOf(b) = {}
          THEN @
          ELSE wal[CHOOSE m \in CommitsOf(b) : \A k \in CommitsOf(b) : k <= m]]

\* the body of the while loop of copy_cdc_events, for the batch in hand
WriteCdcEvents ==
    /\ pc = "cdc_body"
    /\ IF HasError(batch)
       THEN /\ pc' = "failed"
            /\ UNCHANGED <<calls, sink_state>>
       ELSE \/ /\ pc' = "cdc"
               /\ Log("write_cdc_events", 0, batch, TRUE)
               /\ sink_state' = SinkWrite(sink_state, batch)
            \/ /\ pc' = "failed"
               /\ Log("write_cdc_events", 0, batch, FALSE)
               /\ UNCHANGED sink_state
    /\ batch' = <<>>
    /\ ConfigUnchanged
    /\ UNCHANGED <<items, deadline, stream_ended, received, emitted, age>>
    /\ UNCHANGED <<resumption_state, visited, cur>>

(***************************************************************************)
(* BatchTimeoutStream: the stream the two while loops poll.  The task is   *)
(* suspended in next() while pc is "copying" or "cdc"; the upstream yields *)
(* an item, the clock advances, or the upstream ends.                      *)
(***************************************************************************)
Polling == {"copying", "cdc"}

\* the loop body that receives Some(batch)
Body(p) == IF p = "copying" THEN "copy_body" ELSE "cdc_body"
\* the statement after the while loop, reached on None
Exit(p) == IF p = "copying" THEN "mark_copied" ELSE "done"

\* what the upstream of the polled stream may yield as its i-th item
UpstreamItems(p, i) ==
    IF p = "copying"
    THEN {Item("Row", i), Item("Err", i)}
    ELSE {Item(k, i) : k \in UpstreamEventKinds \cup {"Err"}}

RECURSIVE RowsWritten(_)
\* the rows of the write_table_rows calls in q
RowsWritten(q) ==
    IF q = <<>> THEN 0
    ELSE (IF q[1].op = "write_table_rows" THEN Len(q[1].data) ELSE 0)
         + RowsWritten(Tail(q))

\* the items the upstream of the polled stream has yet to yield, at most
ItemsLeft(p) ==
    IF p = "copying"
    THEN MaxRows - RowsWritten(calls) - Len(items)
    ELSE Len(wal) - (PosOf(CdcStartLsn) - 1) - Len(received)

\* a timer that every item arms anew
DeadlineOnItemRestart(buf, dl) == 0

\* Idle + item -> Filling(now, [item]); a later item leaves the timer alone
DeadlineOnItem(buf, dl) == IF buf = <<>> THEN 0 ELSE dl

\* the fill timer has run for max_fill_duration
Expired(dl, cfg) == dl >= cfg.max_fill

\* max_size items have accumulated
Full(buf, cfg) == Len(buf) >= cfg.max_size

\* a stream that returns a batch only when it is full
ShouldEmitWhenFull(buf, dl, cfg) ==
    /\ buf # <<>>
    /\ is_last_in_batch(buf[Len(buf)])
    /\ Full(buf, cfg)

\* the in-progress batch is returned: it is full or its deadline has passed,
\* and its newest item may end a batch
ShouldEmit(buf, dl, cfg) ==
    /\ buf # <<>>
    /\ is_last_in_batch(buf[Len(buf)])
    /\ (Full(buf, cfg) \/ Expired(dl, cfg))

\* an upstream end that returns the in-progress batch even when it is empty
EmitsAtEndAlways(buf) == TRUE

\* an upstream end that drops the in-progress batch
EmitsAtEndNever(buf) == FALSE

\* upstream end: the in-progress batch is returned if it holds an item
EmitsAtEnd(buf) == buf # <<>>

\* an emission that arms the timer for the batch to come
EmitArmsTimer(b) ==
    /\ batch' = b
    /\ emitted' = Append(emitted, b)
    /\ items' = <<>>
    /\ deadline' = 0
    /\ age' = -1
    /\ pc' = Body(pc)

\* next() returns Some(b): the stream goes back to Idle
Emit(b) ==
    /\ batch' = b
    /\ emitted' = Append(emitted, b)
    /\ items' = <<>>
    /\ deadline' = -1
    /\ age' = -1
    /\ pc' = Body(pc)

PipelineUnchanged ==
    UNCHANGED <<sink_state, resumption_state, visited, cur, calls>>

\* the upstream yields an item
StreamItem ==
    /\ pc \in Polling
    /\ ~stream_ended
    /\ ItemsLeft(pc) > 0
    /\ \E x \in UpstreamItems(pc, Len(received) + 1) :
          LET buf == Append(items, x)
              dl == DeadlineOnItem(items, deadline)
          IN /\ received' = Append(received, x)
             /\ IF ShouldEmit(buf, dl, batch_config)
                THEN Emit(buf)
                ELSE /\ items' = buf
                     /\ deadline' = dl
                     /\ age' = (IF items = <<>> THEN 0 ELSE age)
                     /\ UNCHANGED <<batch, emitted, pc>>
    /\ UNCHANGED stream_ended
    /\ ConfigUnchanged
    /\ PipelineUnchanged

\* the clock advances by one tick while the fill timer is running
StreamTick ==
    /\ pc \in Polling
    /\ ~stream_ended
    /\ deadline >= 0
    /\ ~Expired(deadline, batch_config)
    /\ LET dl == deadline + 1
       IN IF ShouldEmit(items, dl, batch_config)
          THEN Emit(items)
          ELSE /\ deadline' = dl
               /\ age' = age + 1
               /\ UNCHANGED <<items, batch, emitted, pc>>
    /\ UNCHANGED <<stream_ended, received>>
    /\ ConfigUnchanged
    /\ PipelineUnchanged

\* the upstream ends
StreamUpstreamEnd ==
    /\ pc \in Polling
    /\ ~stream_ended
    /\ stream_ended' = TRUE
    /\ IF EmitsAtEnd(items)
       THEN Emit(items)
       ELSE /\ pc' = Exit(pc)
            /\ UNCHANGED <<items, deadline, batch, emitted, age>>
    /\ UNCHANGED received
    /\ ConfigUnchanged
    /\ PipelineUnchanged

\* next() on a stream that has ended returns None
StreamNone ==
    /\ pc \in Polling
    /\ stream_ended
    /\ pc' = Exit(pc)
    /\ StreamUnchanged
    /\ ConfigUnchanged
    /\ PipelineUnchanged

Next ==
    \/ GetResumptionState
    \/ WriteTableSchemas
    \/ SkipTableSchemas
    \/ SkipCopiedTable
    \/ TruncateTable
    \/ GetTableCopyStream
    \/ WriteTableRows
    \/ TableCopied
    \/ CommitTransaction
    \/ GetCdcStream
    \/ LsnOverflowPanic
    \/ LsnOverflowWrap
    \/ WriteCdcEvents
    \/ StreamItem
    \/ StreamTick
    \/ StreamUpstreamEnd
    \/ StreamNone

Spec == Init /\ [][Next]_vars

\* the run with a clock that keeps running: a fill timer that is armed and
\* has not expired does not stay pending forever
LiveInit ==
    /\ Init
    /\ sink_state.copied_tables \in {{}, {1}}
    /\ sink_state.last_lsn \in {Lsn(100), LsnMax}

SpecLive == LiveInit /\ [][Next]_vars /\ WF_vars(StreamTick)

(***************************************************************************)
(* start as a function of what its phases do.  The calls a phase makes and *)
(* whether it returns Ok are given by the source and the sink; start       *)
(* decides which phases run, in which order, and stops at the first Err.   *)
(***************************************************************************)
pipevars ==
    <<action, table_schemas, batch_config, sink_state, resumption_state, pc,
      visited, cur, items, deadline, stream_ended, batch, received, emitted,
      age, calls, wal, history>>

\* no pipeline task is running
PipelineIdle ==
    /\ action = "Both"
    /\ table_schemas = {}
    /\ batch_config = [max_size |-> 1, max_fill |-> MaxFillTicks]
    /\ sink_state = [copied_tables |-> {}, last_lsn |-> LsnZero, written |-> {}]
    /\ wal = <<>>
    /\ history = NoHistory(sink_state)
    /\ resumption_state = [copied_tables |-> {}, last_lsn |-> LsnZero]
    /\ pc = "idle"
    /\ visited = {}
    /\ cur = 0
    /\ NoStream
    /\ calls = <<>>

PhaseResult(cs, ok) == [calls |-> cs, ok |-> ok]

\* copy_table_schemas over the catalog schemas
SchemasPhase(schemas) ==
    IF SchemasAreWritten(schemas)
    THEN {PhaseResult(<<Call("write_table_schemas", 0, <<>>, ok)>>, ok) :
             ok \in BOOLEAN}
    ELSE {PhaseResult(<<>>, TRUE)}

SchemasPhaseResults == UNION {SchemasPhase(schemas) : schemas \in SUBSET Tables}

\* the calls of one iteration of the for loop of copy_tables that copies t
\* in a single batch
CopyOf(t) ==
    <<Call("truncate_table", t, <<>>, TRUE),
      Call("get_table_copy_stream", t, <<>>, TRUE),
      Call("write_table_rows", t, <<Item("Row", 1)>>, TRUE),
      Call("table_copied", t, <<>>, TRUE)>>

\* the same calls cut after the k-th, which fails
FailAt(cs, k) ==
    [i \in 1..k |-> IF i = k THEN [cs[i] EXCEPT !.ok = FALSE] ELSE cs[i]]

\* copy_tables: nothing to copy, one table copied, two tables copied, each
\* ending with commit_transaction; the same runs failing at any one call; a
\* row error after get_table_copy_stream
TablesPhaseResults ==
    LET commit == <<Call("commit_transaction", 0, <<>>, TRUE)>>
        full == {commit, CopyOf(1) \o commit, CopyOf(2) \o CopyOf(1) \o commit}
    IN  {PhaseResult(cs, TRUE) : cs \in full}
        \cup {PhaseResult(FailAt(cs, k), FALSE) :
                 k \in 1..5, cs \in {CopyOf(1) \o commit}}
        \cup {PhaseResult(FailAt(commit, 1), FALSE),
              PhaseResult(SubSeq(CopyOf(2), 1, 2), FALSE)}

\* copy_cdc_events: the increment panics; get_cdc_stream fails; the stream
\* ends after zero, one or two batches; an event error or a sink error
TxBatch == <<Item("Insert", 1), Item("Commit", 2)>>

CdcPhaseResults ==
    LET open == Call("get_cdc_stream", 0, <<>>, TRUE)
        write(ok) == Call("write_cdc_events", 0, TxBatch, ok)
    IN  {PhaseResult(<<>>, FALSE),
         PhaseResult(<<[open EXCEPT !.ok = FALSE]>>, FALSE),
         PhaseResult(<<open>>, TRUE),
         PhaseResult(<<open>>, FALSE),
         PhaseResult(<<open, write(TRUE)>>, TRUE),
         PhaseResult(<<open, write(FALSE)>>, FALSE),
         PhaseResult(<<open, write(TRUE), write(TRUE)>>, TRUE)}

PhaseResults ==
    [res_ok : BOOLEAN, schemas : SchemasPhaseResults,
     tables : TablesPhaseResults, cdc : CdcPhaseResults]

\* the phases start runs for an action, as long as none fails
PhasesOf(a) ==
    <<"schemas">>
    \o (IF AfterSchemas(a) = "tables"
        THEN <<"tables">>
             \o (IF AfterTables(a) = "cdc_open" THEN <<"cdc">> ELSE <<>>)
        ELSE <<"cdc">>)

RECURSIVE RunPhases(_, _)
\* each phase is followed by `?`
RunPhases(ps, e) ==
    IF ps = <<>>
    THEN <<>>
    ELSE e[Head(ps)].calls
         \o (IF e[Head(ps)].ok THEN RunPhases(Tail(ps), e) ELSE <<>>)

\* the calls of start(action = a) when the phases do what e says
StartTrace(a, e) ==
    <<Call("get_resumption_state", 0, <<>>, e.res_ok)>>
    \o (IF e.res_ok THEN RunPhases(PhasesOf(a), e) ELSE <<>>)

StartInit ==
    /\ PipelineIdle
    /\ phase_results \in PhaseResults
    /\ start_traces = NoTraces
    /\ DecoderIdle
    /\ ConvIdle
    /\ MgmtIdle

\* the three actions are run against the same source and sink
StartAll ==
    /\ start_traces = NoTraces
    /\ start_traces' = [a \in PipelineActions |-> StartTrace(a, phase_results)]
    /\ UNCHANGED <<pipevars, phase_results, decodervars, convvars, mgmtvars>>

StartNext == StartAll

SpecStart == StartInit /\ [][StartNext]_vars

(***************************************************************************)
(* CdcEventConverter: the decoder of replication messages.  A Result is    *)
(* Ok(value), Err(error) or the panic of the task; an Option is a sequence *)
(* of at most one value.                                                   *)
(***************************************************************************)
\* most columns of a table schema, most data of a tuple
MaxColumns == 1

\* column types: two the decoder parses and one it has no arm for
ColumnTypes == {"BOOL", "INT4", "BYTEA"}

\* the bytes of a Text datum: a boolean and a decimal number
TextValues == {"t", "7"}

Ok(v) == [res |-> "Ok", val |-> v]

Err(e, id) == [res |-> "Err", val |-> [error |-> e, table_id |-> id]]

Panic == [res |-> "Panic", val |-> [error |-> "index out of bounds"]]

None == <<>>

Some(v) == <<v>>

TupleData(k, b) == [tag |-> k, bytes |-> b]

TupleDataValues ==
    {TupleData("Null", ""), TupleData("UnchangedToast", "")}
    \cup {TupleData("Text", b) : b \in TextValues}

Cell(k, v) == [cell |-> k, v |-> v]

\* str::parse::<bool>
ParseBool(b) == IF b \in {"true", "false"} THEN Some(b) ELSE None

\* str::parse::<i16>, ::<i32>, ::<i64>
ParseInt(b) == IF b \in {"0", "7", "-1"} THEN Some(b) ELSE None

\* a conversion that keeps the bytes of every Text datum and takes every
\* other datum for Null
from_tuple_data_as_bytes(typ, val) ==
    IF val.tag = "Text" THEN Ok(Cell("Bytes", val.bytes))
    ELSE Ok(Cell("Null", ""))

\* TIMESTAMP and TIMESTAMPTZ columns are left out of ColumnTypes
from_tuple_data(typ, val) ==
    CASE val.tag = "Null" -> Ok(Cell("Null", ""))
      [] val.tag = "UnchangedToast" -> Err("UnchangedToastNotSupported", 0)
      [] OTHER ->
           CASE typ = "BOOL" ->
                  IF val.bytes = "t" THEN Ok(Cell("Bool", "true"))
                  ELSE IF val.bytes = "f" THEN Ok(Cell("Bool", "false"))
                  ELSE IF ParseBool(val.bytes) = None
                       THEN Err("InvalidBool", 0)
                       ELSE Ok(Cell("Bool", ParseBool(val.bytes)[1]))
             [] typ \in {"CHAR", "BPCHAR", "VARCHAR", "NAME", "TEXT"} ->
                  Ok(Cell("String", val.bytes))
             [] typ = "INT2" ->
                  IF ParseInt(val.bytes) = None
                  THEN Err("InvalidInt", 0)
                  ELSE Ok(Cell("I16", ParseInt(val.bytes)[1]))
             [] typ = "INT4" ->
                  IF ParseInt(val.bytes) = None
                  THEN Err("InvalidInt", 0)
                  ELSE Ok(Cell("I32", ParseInt(val.bytes)[1]))
             [] typ = "INT8" ->
                  IF ParseInt(val.bytes) = None
                  THEN Err("InvalidInt", 0)
                  ELSE Ok(Cell("I64", ParseInt(val.bytes)[1]))
             [] OTHER -> Ok(Cell("Bytes", val.bytes))

RECURSIVE CellsFrom(_, _, _)
\* the for loop of from_tuple_data_slice from its i-th round on:
\* `&tuple_data[i]` panics past the end of the tuple, `?` returns the first
\* error
CellsFrom(column_schemas, tuple_data, i) ==
    IF i > Len(column_schemas) THEN Ok(<<>>)
    ELSE IF i > Len(tuple_data) THEN Panic
    ELSE LET c == from_tuple_data(column_schemas[i], tuple_data[i])
             rest == CellsFrom(column_schemas, tuple_data, i + 1)
         IN  IF c.res # "Ok" THEN c
             ELSE IF rest.res # "Ok" THEN rest
             ELSE Ok(<<c.val>> \o rest.val)

from_tuple_data_slice(column_schemas, tuple_data) ==
    LET values == CellsFrom(column_schemas, tuple_data, 1)
    IN  IF values.res # "Ok" THEN values ELSE Ok([values |-> values.val])

from_insert_body(table_id, column_schemas, insert_body) ==
    LET row == from_tuple_data_slice(column_schemas, insert_body.new)
    IN  IF row.res # "Ok" THEN row
        ELSE Ok([kind |-> "Insert", table_id |-> table_id, row |-> row.val])

\* `.map(|tuple| from_tuple_data_slice(..)).transpose()`
OptionalRow(column_schemas, tuple) ==
    IF tuple = None THEN Ok([row |-> None])
    ELSE LET row == from_tuple_data_slice(column_schemas, tuple[1])
         IN  IF row.res # "Ok" THEN row ELSE Ok([row |-> Some(row.val)])

from_update_body(table_id, column_schemas, update_body) ==
    LET key_row == OptionalRow(column_schemas, update_body.key)
        old_row == OptionalRow(column_schemas, update_body.old)
        row == from_tuple_data_slice(column_schemas, update_body.new)
    IN  IF key_row.res # "Ok" THEN key_row
        ELSE IF old_row.res # "Ok" THEN old_row
        ELSE IF row.res # "Ok" THEN row
        ELSE Ok([kind |-> "Update", table_id |-> table_id,
                 old_row |-> old_row.val.row, key_row |-> key_row.val.row,
                 row |-> row.val])

\* a from_delete_body that looks at the old tuple first
from_delete_body_old_first(table_id, column_schemas, delete_body) ==
    LET tuple == IF delete_body.old # None THEN delete_body.old
                 ELSE delete_body.key
        row == from_tuple_data_slice(column_schemas, tuple[1])
    IN  IF tuple = None THEN Err("MissingTupleInDeleteBody", 0)
        ELSE IF row.res # "Ok" THEN row
        ELSE Ok([kind |-> "Delete", table_id |-> table_id, row |-> row.val])

from_delete_body(table_id, column_schemas, delete_body) ==
    LET tuple == IF delete_body.key # None THEN delete_body.key
                 ELSE delete_body.old
        row == from_tuple_data_slice(column_schemas, tuple[1])
    IN  IF tuple = None THEN Err("MissingTupleInDeleteBody", 0)
        ELSE IF row.res # "Ok" THEN row
        ELSE Ok([kind |-> "Delete", table_id |-> table_id, row |-> row.val])

\* a lookup that takes a missing schema for a schema without columns
GetSchemaOrEmpty(schemas, table_id) ==
    IF table_id \in DOMAIN schemas THEN Some(schemas[table_id]) ELSE Some(<<>>)

\* `table_schemas.get(&table_id)`
GetSchema(schemas, table_id) ==
    IF table_id \in DOMAIN schemas THEN Some(schemas[table_id]) ELSE None

\* a reply asked for by every flag but 0
KeepAliveReplyNonZero(flag) == flag # 0

\* `keep_alive.reply() == 1`
KeepAliveReply(flag) == flag = 1

try_from(value, schemas) ==
    LET column_schemas == GetSchema(schemas, value.rel)
    IN  CASE value.tag \in {"Begin", "Commit", "Relation", "Type"} ->
               Ok([kind |-> value.tag])
          [] value.tag \in {"Origin", "Truncate"} ->
               Err("MessageNotSupported", 0)
          [] value.tag = "Insert" ->
               IF column_schemas = None THEN Err("MissingSchema", value.rel)
               ELSE from_insert_body(value.rel, column_schemas[1], value)
          [] value.tag = "Update" ->
               IF column_schemas = None THEN Err("MissingSchema", value.rel)
               ELSE from_update_body(value.rel, column_schemas[1], value)
          [] value.tag = "Delete" ->
               IF column_schemas = None THEN Err("MissingSchema", value.rel)
               ELSE from_delete_body(value.rel, column_schemas[1], value)
          [] value.tag = "PrimaryKeepAlive" ->
               Ok([kind |-> "KeepAliveRequested",
                   reply |-> KeepAliveReply(value.reply)])
          [] OTHER -> Err("UnknownReplicationMessage", 0)

\* a replication message: its variant, and the relation id, the key, old
\* and new tuples and the reply flag of the variants that have them
Message(tag, rel, key, old, new, reply) ==
    [tag |-> tag, rel |-> rel, key |-> key, old |-> old, new |-> new,
     reply |-> reply]

Tuples == UNION {[1..n -> TupleDataValues] : n \in 0..MaxColumns}

OptionalTuples == {None} \cup {Some(t) : t \in Tuples}

\* "Message" stands for the logical messages try_from has no arm for,
\* "Other" for the replication messages it has no arm for
Messages ==
    {Message(t, 0, None, None, <<>>, 0) :
        t \in {"Begin", "Commit", "Origin", "Type", "Truncate", "Message",
               "Other"}}
    \cup {Message("Relation", r, None, None, <<>>, 0) : r \in Tables}
    \cup {Message("Insert", r, None, None, n, 0) : r \in Tables, n \in Tuples}
    \cup {Message("Update", r, k, o, n, 0) :
             r \in Tables, k \in OptionalTuples, o \in OptionalTuples,
             n \in Tuples}
    \cup {Message("Delete", r, k, o, <<>>, 0) :
             r \in Tables, k \in OptionalTuples, o \in OptionalTuples}
    \cup {Message("PrimaryKeepAlive", 0, None, None, <<>>, f) : f \in 0..2}

\* the column types of a table
ColumnSchemas == UNION {[1..n -> ColumnTypes] : n \in 1..MaxColumns}

\* table-schema maps: some tables of the catalog, of one shape
SchemaMaps == UNION {[D -> {cs}] : D \in SUBSET Tables, cs \in ColumnSchemas}

DecodeInit ==
    /\ PipelineIdle
    /\ phase_results = NoPhases
    /\ start_traces = NoTraces
    /\ message \in Messages
    /\ decoder_schemas \in SchemaMaps
    /\ decoded = NoResult
    /\ ConvIdle
    /\ MgmtIdle

Decode ==
    /\ decoded = NoResult
    /\ decoded' = try_from(message, decoder_schemas)
    /\ UNCHANGED <<pipevars, startvars, message, decoder_schemas, convvars,
                   mgmtvars>>

DecodeNext == Decode

SpecDecode == DecodeInit /\ [][DecodeNext]_vars

(***************************************************************************)
(* PgNumeric::from_sql: the decoder of a binary NUMERIC.  The input is a   *)
(* sequence of big-endian 16-bit words: n_digits, weight (signed), sign,   *)
(* scale and the base-10000 digits.  A decimal, arbitrary-precision or     *)
(* fixed, is a sign, a coefficient written as its decimal digits (most     *)
(* significant first, no leading zero, empty for 0) and a scale: its value *)
(* is coefficient / 10^scale.                                              *)
(***************************************************************************)
\* most base-10000 digits of a NUMERIC
MaxDigits == 2

\* bigdecimal, rust_decimal, or neither: the builds of the crate
NumericFeatures == {"bigdecimal", "rust_decimal", "none"}

\* 0x0000, 0x4000, 0xC000, 0xD000, 0xF000 and 0x1234
SignCodes == {0, 16384, 49152, 53248, 61440, 4660}

Weights == {-8, -1, 0, 1, 7, 8}

Scales == {0, 2, 4, 28, 29}

\* base-10000 digits
DigitValues == {0, 1, 2300, 5000}

\* `const MAX_SCALE: u32 = 28`
MAX_SCALE == 28

\* 2^96 - 1, the largest coefficient of a rust_decimal::Decimal
MaxCoefficient ==
    <<7, 9, 2, 2, 8, 1, 6, 2, 5, 1, 4, 2, 6, 4, 3, 3, 7, 5, 9, 3, 5, 4, 3, 9,
      5, 0, 3, 3, 5>>

NumErr(e) == [res |-> "Err", val |-> [error |-> e]]

\* the panic of Decimal::from_i128_with_scale
Abort(e) == [res |-> "Panic", val |-> [error |-> e]]

Decimal(neg, m, scale) == [neg |-> neg, m |-> m, scale |-> scale]

NumericValue(d) == [numeric |-> "Value", value |-> d]

Sentinel(n) == [numeric |-> n]

Zeros(n) == [i \in 1..n |-> 0]

RECURSIVE Strip(_)
\* m without its leading zeros
Strip(m) == IF m # <<>> /\ m[1] = 0 THEN Strip(Tail(m)) ELSE m

\* the four decimal digits of a base-10000 digit
Pad4(d) == <<d \div 1000, (d \div 100) % 10, (d \div 10) % 10, d % 10>>

RECURSIVE AddCarry(_, _, _)
\* the sum of two coefficients and a carry
AddCarry(a, b, c) ==
    IF a = <<>> /\ b = <<>> THEN (IF c = 0 THEN <<>> ELSE <<c>>)
    ELSE LET x == IF a = <<>> THEN 0 ELSE a[Len(a)]
             y == IF b = <<>> THEN 0 ELSE b[Len(b)]
             fa == IF a = <<>> THEN <<>> ELSE SubSeq(a, 1, Len(a) - 1)
             fb == IF b = <<>> THEN <<>> ELSE SubSeq(b, 1, Len(b) - 1)
         IN  AddCarry(fa, fb, (x + y + c) \div 10) \o <<(x + y + c) % 10>>

Add(a, b) == Strip(AddCarry(a, b, 0))

\* m * 10^k
Shift(m, k) == IF m = <<>> THEN <<>> ELSE m \o Zeros(k)

\* a <= b for coefficients of the same length
LexLeq(a, b) ==
    \/ a = b
    \/ \E i \in DOMAIN a :
          /\ a[i] < b[i]
          /\ \A j \in 1..(i - 1) : a[j] = b[j]

\* the coefficient fits the 96 bits of a Decimal
Fits96(m) ==
    \/ Len(m) < Len(MaxCoefficient)
    \/ Len(m) = Len(MaxCoefficient) /\ LexLeq(m, MaxCoefficient)

RECURSIVE Normalize(_)
\* the same value at the least scale
Normalize(d) ==
    IF d.m = <<>> THEN Decimal(d.neg, <<>>, 0)
    ELSE IF d.scale > 0 /\ d.m[Len(d.m)] = 0
         THEN Normalize(Decimal(d.neg, SubSeq(d.m, 1, Len(d.m) - 1),
                                d.scale - 1))
         ELSE d

\* Decimal::checked_mul by 10^k of a Decimal of scale 0
checked_mul_pow10(d, k) ==
    IF Fits96(Shift(d.m, k)) THEN Some(Decimal(d.neg, Shift(d.m, k), 0))
    ELSE None

\* Decimal::checked_add of two Decimal of scale 0
checked_add_int(d, m) ==
    IF Fits96(Add(d.m, m)) THEN Some(Decimal(d.neg, Add(d.m, m), 0)) ELSE None

\* Decimal::checked_add of m / 10^pow, the quotient being exact.  A sum of
\* more than 96 bits is rounded by the library; no input of NumericRaws
\* has one, and it is kept apart as a value of its own.
checked_add_fraction(d, m, pow) ==
    LET scale == IF d.scale > pow THEN d.scale ELSE pow
        sum == Add(Shift(d.m, scale - d.scale), Shift(m, scale - pow))
    IN  IF Fits96(sum) THEN Some(Normalize(Decimal(d.neg, sum, scale)))
        ELSE Some(Decimal(d.neg, <<"rounded">>, scale))

\* Decimal::rescale: towards a smaller scale the value is rounded on the
\* first digit given up; towards a larger scale the coefficient is
\* multiplied by 10 as long as it fits, and the scale reached is kept
rescale(d, scale) ==
    IF d.m = <<>> THEN Decimal(d.neg, <<>>, scale)
    ELSE IF d.scale > scale
    THEN LET k == d.scale - scale
             kept == IF Len(d.m) > k THEN SubSeq(d.m, 1, Len(d.m) - k)
                     ELSE <<>>
             up == Len(d.m) >= k /\ d.m[Len(d.m) - k + 1] >= 5
         IN  Decimal(d.neg, IF up THEN Add(kept, <<1>>) ELSE kept, scale)
    ELSE LET k == CHOOSE k \in 0..(scale - d.scale) :
                     /\ Fits96(Shift(d.m, k))
                     /\ k < scale - d.scale => ~Fits96(Shift(d.m, k + 1))
         IN  Decimal(d.neg, Shift(d.m, k), d.scale + k)

RECURSIVE IntegerPart(_, _)
\* `for digit in integers`: result * 10^4 + digit, None on overflow
IntegerPart(result, integers) ==
    IF integers = <<>> \/ result = None THEN result
    ELSE LET mul == checked_mul_pow10(result[1], 4)
         IN  IF mul = None THEN None
             ELSE IntegerPart(checked_add_int(mul[1], Strip(Pad4(integers[1]))),
                              Tail(integers))

RECURSIVE FractionalPart(_, _, _, _)
\* `for (i, digit) in digits.into_iter().enumerate()` from round i on
FractionalPart(result, digits, i, start_fractionals) ==
    IF i >= Len(digits) \/ result = None THEN result
    ELSE LET fract_pow == 4 * (i + 1 + start_fractionals)
             digit == digits[i + 1]
             next ==
                 IF fract_pow <= MAX_SCALE
                 THEN checked_add_fraction(result[1], Strip(Pad4(digit)),
                                           fract_pow)
                 ELSE IF fract_pow = MAX_SCALE + 4 /\ digit >= 5000
                      THEN checked_add_fraction(result[1], <<1>>, MAX_SCALE)
                      ELSE result
         IN  FractionalPart(next, digits, i + 1, start_fractionals)

\* checked_from_postgres: Some(Decimal), None, or the panic of
\* Decimal::from_i128_with_scale(10i128.pow(4 * start_integers), 0) when the
\* power of ten has more than 96 bits
checked_from_postgres(neg, weight, scale, digits) ==
    LET fractionals_part_count == Len(digits) - weight - 1
        integers_part_count == weight + 1
        start_integers == IF integers_part_count > Len(digits)
                          THEN integers_part_count - Len(digits) ELSE 0
        last == IF integers_part_count > Len(digits) THEN Len(digits)
                ELSE integers_part_count
        integers == IF integers_part_count > 0 THEN SubSeq(digits, 1, last)
                    ELSE <<>>
        rest == IF integers_part_count > 0
                THEN SubSeq(digits, last + 1, Len(digits)) ELSE digits
        whole == IntegerPart(Some(Decimal(FALSE, <<>>, 0)), integers)
        scaled == IF whole = None THEN None
                  ELSE checked_mul_pow10(whole[1], 4 * start_integers)
        start_fractionals == IF weight < 0 THEN (-weight) - 1 ELSE 0
        result == IF fractionals_part_count > 0
                  THEN FractionalPart(scaled, rest, 0, start_fractionals)
                  ELSE scaled
    IN  IF integers_part_count > 0 /\ whole # None
           /\ ~Fits96(<<1>> \o Zeros(4 * start_integers))
        THEN Abort("Decimal::from_i128_with_scale")
        ELSE IF result = None THEN [res |-> "None"]
        ELSE [res |-> "Some",
              val |-> rescale(Decimal(neg, result[1].m, result[1].scale),
                              IF scale < MAX_SCALE THEN scale ELSE MAX_SCALE)]

RECURSIVE Accumulate(_)
\* `biguint += digit * 10_000^n` for n from n_digits - 1 down to 0
Accumulate(digits) ==
    IF digits = <<>> THEN <<>>
    ELSE Add(Shift(Strip(Pad4(digits[1])), 4 * (Len(digits) - 1)),
             Accumulate(Tail(digits)))

\* BigDecimal::new(bigint, -correction_exp).with_scale(scale): the
\* coefficient is multiplied by a power of ten or divided by one, the
\* quotient being truncated; a zero BigInt has no sign
FromBigUint(neg, weight, scale, digits) ==
    LET biguint == Accumulate(digits)
        correction_exp == 4 * (weight - Len(digits) + 1)
        m == IF scale >= -correction_exp
             THEN Shift(biguint, scale + correction_exp)
             ELSE IF Len(biguint) > (-correction_exp) - scale
                  THEN SubSeq(biguint, 1,
                              Len(biguint) - ((-correction_exp) - scale))
                  ELSE <<>>
    IN  Decimal(neg /\ m # <<>>, m, scale)

\* a sign match that takes every code but 0x4000 for plus
SignOfAnyCode(code) ==
    IF code = 16384 THEN Some("Minus") ELSE Some("Plus")

\* `match rdr.read_u16()?`: the sign of a value, None for the codes that
\* return at once
SignOf(code) ==
    CASE code = 16384 -> Some("Minus")
      [] code = 0 -> Some("Plus")
      [] OTHER -> None

\* reading past the end of raw
UnexpectedEof == NumErr("UnexpectedEof")

from_sql(feat, words) ==
    IF Len(words) < 3 THEN UnexpectedEof
    ELSE LET n_digits == words[1]
             weight == words[2]
             sign == SignOf(words[3])
         IN  IF sign = None
             THEN CASE words[3] = 49152 -> Ok(Sentinel("NaN"))
                    [] words[3] = 53248 -> Ok(Sentinel("PositiveInf"))
                    [] words[3] = 61440 -> Ok(Sentinel("NegativeInf"))
                    [] OTHER -> NumErr("invalid sign")
             ELSE IF Len(words) < 4 THEN UnexpectedEof
             ELSE LET scale == words[4]
                      digits == SubSeq(words, 5, 4 + n_digits)
                      res == checked_from_postgres(sign[1] = "Minus", weight,
                                                   scale, digits)
                  IN  CASE feat = "bigdecimal" ->
                             IF Len(words) < 4 + n_digits THEN UnexpectedEof
                             ELSE Ok(NumericValue(
                                       FromBigUint(sign[1] = "Minus", weight,
                                                   scale, digits)))
                        [] feat = "rust_decimal" ->
                             IF Len(words) < 4 + n_digits THEN UnexpectedEof
                             ELSE IF res.res = "None"
                                  THEN NumErr("InvalidDecimalValue")
                             ELSE IF res.res = "Some"
                                  THEN Ok(NumericValue(res.val))
                             ELSE res
                        [] OTHER -> Ok(NumericValue("TODO"))

DigitSeqs == UNION {[1..n -> DigitValues] : n \in 0..MaxDigits}

\* the inputs: a header alone, or a header, a scale and some digits, as
\* many as n_digits says, fewer or more
NumericRaws ==
    {<<n, w, s>> \o rest :
        n \in 0..MaxDigits, w \in Weights, s \in SignCodes,
        rest \in {<<>>} \cup {<<sc>> \o ds : sc \in Scales, ds \in DigitSeqs}}

NumericInit ==
    /\ PipelineIdle
    /\ phase_results = NoPhases
    /\ start_traces = NoTraces
    /\ DecoderIdle
    /\ feature \in NumericFeatures
    /\ raw \in NumericRaws
    /\ numeric = NoResult
    /\ CellIdle
    /\ RowIdle
    /\ MgmtIdle

DecodeNumeric ==
    /\ raw # <<>>
    /\ numeric = NoResult
    /\ numeric' = from_sql(feature, raw)
    /\ UNCHANGED <<pipevars, startvars, decodervars, feature, raw, cellvars,
                   rowvars, mgmtvars>>

NumericNext == DecodeNumeric

SpecNumeric == NumericInit /\ [][NumericNext]_vars

(***************************************************************************)
(* The conversions of a Cell to a Rust value.  The crate has two Cell      *)
(* enums: that of conversions/mod.rs, whose scalar conversions are derived *)
(* (derive_more::TryInto), and that of conversions/table_row.rs, whose     *)
(* scalar conversions are written out.  An integer is the sequence of its  *)
(* 16-bit words, read as signed or unsigned; a text is a string.           *)
(***************************************************************************)
CellImpls == {"conversions", "table_row"}

\* the scalar type each variant of the Cell of mod.rs holds
DerivedVariants ==
    [bool |-> "Bool", String |-> "String", i16 |-> "I16", i32 |-> "I32",
     u32 |-> "U32", i64 |-> "I64", f32 |-> "F32", f64 |-> "F64",
     PgNumeric |-> "Numeric", NaiveDate |-> "Date", NaiveTime |-> "Time",
     NaiveDateTime |-> "TimeStamp", DateTimeUtc |-> "TimeStampTz",
     Uuid |-> "Uuid", Json |-> "Json", VecU8 |-> "Bytes"]

\* the scalar types with a conversion in table_row.rs
TableRowTypes ==
    {"bool", "i32", "u32", "i64", "u64", "String", "CowStr", "NaiveDateTime",
     "DateTimeUtc", "VecU8", "Uuid"}

\* of these, the ones with a conversion to Option<T>
TableRowOptionTypes == TableRowTypes \ {"CowStr"}

ScalarTypes(impl) ==
    IF impl = "conversions" THEN DOMAIN DerivedVariants ELSE TableRowTypes

\* texts: a UUID, a timestamp, and one that is neither
UuidText == "6ba7b810-9dad-11d1-80b4-00c04fd430c8"

TimeStampText == "2024-01-01 00:00:00"

Texts == {UuidText, TimeStampText, "x"}

\* byte strings: the UTF-8 of the texts and one that is no UTF-8
ByteStrings == [utf8 : {TRUE}, text : Texts] \cup {[utf8 |-> FALSE, text |-> ""]}

\* the words of -1 and of 7
Words32 == {<<65535, 65535>>, <<0, 7>>}

Words64 == {<<65535, 65535, 65535, 65535>>, <<0, 0, 0, 7>>}

ConvErr(e) == [res |-> "Err", val |-> [error |-> e]]

Signed(words) == [signed |-> TRUE, words |-> words]

\* `i as u32`, `i as u64`: the same words, read as unsigned
Unsigned(words) == [signed |-> FALSE, words |-> words]

\* the ArrayCell values of mod.rs
ArrayCells ==
    {[array |-> "Null", v |-> <<>>],
     [array |-> "Bool", v |-> <<Some(TRUE), None>>],
     [array |-> "I32", v |-> <<Some(Signed(<<0, 7>>))>>],
     [array |-> "String", v |-> <<>>]}

\* the Cell values of mod.rs
DerivedCells ==
    {Cell("Null", "")}
    \cup {Cell("Bool", b) : b \in BOOLEAN}
    \cup {Cell("String", t) : t \in Texts}
    \cup {Cell("I16", Signed(<<7>>))}
    \cup {Cell("I32", Signed(w)) : w \in Words32}
    \cup {Cell("U32", Unsigned(w)) : w \in Words32}
    \cup {Cell("I64", Signed(w)) : w \in Words64}
    \cup {Cell(k, "v") : k \in {"F32", "F64", "Numeric", "Date", "Time",
                               "TimeStamp", "TimeStampTz", "Json"}}
    \cup {Cell("Uuid", UuidText)}
    \cup {Cell("Bytes", b) : b \in ByteStrings}
    \cup {Cell("Array", a) : a \in ArrayCells}

\* the Cell values of table_row.rs
TableRowCells ==
    {Cell("Null", "")}
    \cup {Cell("Bool", b) : b \in BOOLEAN}
    \cup {Cell("String", t) : t \in Texts}
    \cup {Cell("I16", Signed(<<7>>))}
    \cup {Cell("I32", Signed(w)) : w \in Words32}
    \cup {Cell("I64", Signed(w)) : w \in Words64}
    \cup {Cell("TimeStamp", t) : t \in Texts}
    \cup {Cell("Bytes", b) : b \in ByteStrings}
    \cup {Cell("Uuid", UuidText)}
    \cup {Cell("Array", <<Cell("Bool", TRUE)>>)}

\* Uuid::parse_str
ParseUuid(t) == IF t = UuidText THEN Ok(t) ELSE ConvErr("invalid uuid")

\* NaiveDateTime::parse_from_str, str::parse::<DateTime<Utc>>
ParseTimeStamp(t) ==
    IF t = TimeStampText THEN Ok(t) ELSE ConvErr("invalid timestamp")

\* the conversions written out in table_row.rs
table_row_try_from(T, c) ==
    LET k == c.cell
        no == ConvErr("to " \o T)
    IN  CASE T = "bool" -> IF k = "Bool" THEN Ok(c.v) ELSE no
          [] T = "i32" -> IF k = "I32" THEN Ok(c.v) ELSE no
          [] T = "u32" -> IF k = "I32" THEN Ok(Unsigned(c.v.words)) ELSE no
          [] T = "i64" -> IF k = "I64" THEN Ok(c.v) ELSE no
          [] T = "u64" -> IF k = "I64" THEN Ok(Unsigned(c.v.words)) ELSE no
          [] T \in {"String", "CowStr"} ->
               IF k = "String" THEN Ok(c.v) ELSE no
          [] T \in {"NaiveDateTime", "DateTimeUtc"} ->
               IF k = "TimeStamp" THEN ParseTimeStamp(c.v) ELSE no
          [] T = "VecU8" -> IF k = "Bytes" THEN Ok(c.v) ELSE no
          [] T = "Uuid" ->
               CASE k = "Uuid" -> Ok(c.v)
                 [] k = "String" -> ParseUuid(c.v)
                 [] k = "Bytes" ->
                      IF c.v.utf8 THEN ParseUuid(c.v.text)
                      ELSE ConvErr("invalid utf-8")
                 [] OTHER -> no
          [] OTHER -> no

\* the conversions derive_more::TryInto gives the Cell of mod.rs: the
\* variant that holds a T, and no other
derived_try_from(T, c) ==
    IF c.cell = DerivedVariants[T] THEN Ok(c.v)
    ELSE ConvErr("TryIntoError")

\* a conversion that unwraps whatever the cell holds
scalar_try_from_any(impl, T, c) == Ok(c.v)

\* `T::try_from(cell)`
scalar_try_from(impl, T, c) ==
    IF impl = "conversions" THEN derived_try_from(T, c)
    ELSE table_row_try_from(T, c)

\* `.map(Some)`
MapSome(r) == IF r.res = "Ok" THEN Ok(Some(r.val)) ELSE r

\* a conversion to Option<T> without the arm for Null
option_try_from_no_null(impl, T, c) == MapSome(scalar_try_from(impl, T, c))

\* `impl TryFrom<Cell> for Option<T>`, the same in both modules
option_try_from(impl, T, c) ==
    IF c.cell = "Null" THEN Ok(None)
    ELSE MapSome(scalar_try_from(impl, T, c))

\* the conversion derive_more::TryInto gives ArrayCell: the variant that
\* holds a Vec<Option<T>>, and no other (Null is ignored)
array_try_into(T, a) ==
    IF a.array = DerivedVariants[T] THEN Ok(a.v) ELSE ConvErr("TryIntoError")

\* `impl TryFrom<Cell> for Vec<Option<T>>` of mod.rs
vec_try_from(T, c) ==
    IF c.cell = "Array"
    THEN IF array_try_into(T, c.v).res = "Ok" THEN array_try_into(T, c.v)
         ELSE ConvErr("type conversion failed")
    ELSE ConvErr("Only ArrayCell can be converted to Vec<Option<T>>")

\* `impl TryFrom<Cell> for Option<Vec<Option<T>>>` of mod.rs
option_vec_try_from(T, c) ==
    CASE c.cell = "Null" -> Ok(None)
      [] c.cell = "Array" /\ c.v.array = "Null" -> Ok(None)
      [] c.cell = "Array" ->
           IF array_try_into(T, c.v).res = "Ok"
           THEN MapSome(array_try_into(T, c.v))
           ELSE ConvErr("type conversion failed")
      [] OTHER ->
           ConvErr("Only ArrayCell can be converted to Option<Vec<Option<T>>>")

\* the conversion to the target type
cell_try_from(impl, to, c) ==
    CASE to.wrap = "T" -> scalar_try_from(impl, to.T, c)
      [] to.wrap = "Option<T>" -> option_try_from(impl, to.T, c)
      [] to.wrap = "Vec<Option<T>>" -> vec_try_from(to.T, c)
      [] OTHER -> option_vec_try_from(to.T, c)

\* the target types with a conversion
Targets(impl) ==
    IF impl = "conversions"
    THEN [wrap : {"T", "Option<T>", "Vec<Option<T>>", "Option<Vec<Option<T>>>"},
          T : DOMAIN DerivedVariants]
    ELSE [wrap : {"T"}, T : TableRowTypes]
         \cup [wrap : {"Option<T>"}, T : TableRowOptionTypes]

CellInit ==
    /\ PipelineIdle
    /\ phase_results = NoPhases
    /\ start_traces = NoTraces
    /\ DecoderIdle
    /\ NumericIdle
    /\ cell_impl \in CellImpls
    /\ cell \in IF cell_impl = "conversions" THEN DerivedCells
                ELSE TableRowCells
    /\ target \in Targets(cell_impl)
    /\ converted = NoResult
    /\ RowIdle
    /\ MgmtIdle

ConvertCell ==
    /\ cell # NoMessage
    /\ converted = NoResult
    /\ converted' = cell_try_from(cell_impl, target, cell)
    /\ UNCHANGED <<pipevars, startvars, decodervars, numvars, cell_impl, cell,
                   target, rowvars, mgmtvars>>

CellNext == ConvertCell

SpecCell == CellInit /\ [][CellNext]_vars

(***************************************************************************)
(* TableRowConverter: the decoder of a row of a binary COPY.  The driver   *)
(* (BinaryCopyOutRow) has for each column a value, SQL NULL, or bytes it   *)
(* cannot convert to the Rust type asked for; a row may have fewer columns *)
(* than the schema.  `try_get` returns the driver's error, `get` panics on *)
(* it.                                                                     *)
(***************************************************************************)
\* column types: five with an arm of their own and one without
CopyColumnTypes == {"BOOL", "TEXT", "INT4", "TIMESTAMP", "UUID", "BYTEA"}

\* the Cell variant of the arm of a type
CopyCellKinds ==
    [BOOL |-> "Bool", TEXT |-> "String", INT4 |-> "I32",
     TIMESTAMP |-> "TimeStamp", UUID |-> "Uuid"]

\* what the driver has for a column: bytes that convert ("x", or none at
\* all), SQL NULL, bytes that do not convert
CopyData ==
    {[state |-> "Value", bytes |-> "x"], [state |-> "Value", bytes |-> ""],
     [state |-> "Null", bytes |-> ""], [state |-> "Invalid", bytes |-> "x"]}

\* `row.try_get::<T>(i)`: VecWrapper accepts every type, converts every
\* value and takes SQL NULL for no bytes
try_get(row, typ, i) ==
    IF i > Len(row) THEN ConvErr("column not found")
    ELSE IF typ \notin DOMAIN CopyCellKinds THEN Ok(row[i].bytes)
    ELSE CASE row[i].state = "Value" -> Ok(row[i].bytes)
           [] row[i].state = "Null" -> ConvErr("WasNull")
           [] OTHER -> ConvErr("FromSql")

\* `row.get::<T>(i)`
get(row, typ, i) ==
    IF try_get(row, typ, i).res = "Ok" THEN try_get(row, typ, i)
    ELSE Abort("error retrieving column")

\* a get_cell_value that reads every column as if it were non-nullable
get_cell_value_non_null(row, column_schema, i) ==
    LET typ == column_schema.typ
        got == get(row, typ, i)
    IN  IF got.res # "Ok" THEN got
        ELSE IF typ \in DOMAIN CopyCellKinds
        THEN Ok(Cell(CopyCellKinds[typ], got.val))
        ELSE Ok(Cell("Bytes", got.val))

get_cell_value(row, column_schema, i) ==
    LET typ == column_schema.typ
        tried == try_get(row, typ, i)
        got == get(row, typ, i)
    IN  IF typ \in DOMAIN CopyCellKinds
        THEN IF column_schema.nullable
             THEN IF tried.res = "Ok"
                  THEN Ok(Cell(CopyCellKinds[typ], tried.val))
                  ELSE Ok(Cell("Null", ""))
             ELSE IF got.res = "Ok" THEN Ok(Cell(CopyCellKinds[typ], got.val))
                  ELSE got
        ELSE IF column_schema.nullable
             THEN IF tried.res = "Ok" /\ tried.val # ""
                  THEN Ok(Cell("Bytes", tried.val))
                  ELSE Ok(Cell("Null", ""))
             ELSE IF got.res = "Ok" THEN Ok(Cell("Bytes", got.val)) ELSE got

RECURSIVE CopyCellsFrom(_, _, _)
\* the for loop of TableRowConverter::try_from from its i-th round on
CopyCellsFrom(row, schemas, i) ==
    IF i > Len(schemas) THEN Ok(<<>>)
    ELSE LET value == get_cell_value(row, schemas[i], i)
             rest == CopyCellsFrom(row, schemas, i + 1)
         IN  IF value.res # "Ok" THEN value
             ELSE IF rest.res # "Ok" THEN rest
             ELSE Ok(<<value.val>> \o rest.val)

table_row_converter_try_from(row, schemas) ==
    LET values == CopyCellsFrom(row, schemas, 1)
    IN  IF values.res # "Ok" THEN values ELSE Ok([values |-> values.val])

CopyRows == UNION {[1..n -> CopyData] : n \in 0..MaxColumns}

CopySchemas ==
    UNION {[1..n -> [typ : CopyColumnTypes, nullable : BOOLEAN]] :
              n \in 1..MaxColumns}

RowInit ==
    /\ PipelineIdle
    /\ phase_results = NoPhases
    /\ start_traces = NoTraces
    /\ DecoderIdle
    /\ NumericIdle
    /\ CellIdle
    /\ copy_row \in CopyRows
    /\ copy_schemas \in CopySchemas
    /\ table_row = NoResult
    /\ MgmtIdle

ConvertRow ==
    /\ copy_schemas # <<>>
    /\ table_row = NoResult
    /\ table_row' = table_row_converter_try_from(copy_row, copy_schemas)
    /\ UNCHANGED <<pipevars, startvars, decodervars, numvars, cellvars,
                   copy_row, copy_schemas, mgmtvars>>

RowNext == ConvertRow

SpecRow == RowInit /\ [][RowNext]_vars

(***************************************************************************)
(* The management API: the sources, sinks and pipelines of the tenants.    *)
(* A row of a table carries the id the table's sequence gave it and the    *)
(* tenant_id of its owner.  The handlers of the pipeline routes are taken  *)
(* from what their tests require of them.                                  *)
(***************************************************************************)

\* the rows the three tables may hold together
MaxRecords == 4

\* the tenants the tests create
Tenants == {"abcdefghijklmnopqrst", "tsrqponmlkjihgfedcba"}

\* `returning id` of an insert: the next value of the table's sequence
NextId(table) == Cardinality(table) + 1

\* the ids a request may name: those the table's sequence has given and
\* the next one, which no row has
Ids(table) == 1..NextId(table)

\* the tables have room for a row
Room ==
    Cardinality(app_sources) + Cardinality(app_sinks)
        + Cardinality(app_pipelines) < MaxRecords

\* reqwest::StatusCode
OK == "200 OK"
BAD_REQUEST == "400 Bad Request"
NOT_FOUND == "404 Not Found"

Request(op, tenant_id, id, source_id, sink_id, status) ==
    [op |-> op, tenant_id |-> tenant_id, id |-> id, source_id |-> source_id,
     sink_id |-> sink_id, status |-> status]

\* sink_exists without the tenant_id of its where clause
sink_exists_any_tenant(pool, tenant_id, sink_id) ==
    \E r \in pool : r.id = sink_id

\* select exists (select id from app.sinks
\*                where tenant_id = $1 and id = $2)
sink_exists(pool, tenant_id, sink_id) ==
    \E r \in pool : r.tenant_id = tenant_id /\ r.id = sink_id

\* the same query on app.sources
source_exists(pool, tenant_id, source_id) ==
    \E r \in pool : r.tenant_id = tenant_id /\ r.id = source_id

\* insert into app.sinks (tenant_id, name, config) ... returning id
create_sink(tenant_id) ==
    /\ Room
    /\ app_sinks' =
           app_sinks \cup {[id |-> NextId(app_sinks), tenant_id |-> tenant_id]}
    /\ response' = Request("create_sink", tenant_id, NextId(app_sinks), 0, 0, OK)
    /\ UNCHANGED <<app_sources, app_pipelines>>

create_source(tenant_id) ==
    /\ Room
    /\ app_sources' =
           app_sources
               \cup {[id |-> NextId(app_sources), tenant_id |-> tenant_id]}
    /\ response' =
           Request("create_source", tenant_id, NextId(app_sources), 0, 0, OK)
    /\ UNCHANGED <<app_sinks, app_pipelines>>

\* POST /v1/pipelines: the source and the sink are looked up under the
\* tenant of the request before the row is inserted
create_pipeline(tenant_id, source_id, sink_id) ==
    /\ Room
    /\ IF /\ source_exists(app_sources, tenant_id, source_id)
          /\ sink_exists(app_sinks, tenant_id, sink_id)
       THEN /\ app_pipelines' =
                   app_pipelines
                       \cup {[id |-> NextId(app_pipelines),
                              tenant_id |-> tenant_id,
                              source_id |-> source_id, sink_id |-> sink_id]}
            /\ response' = Request("create_pipeline", tenant_id,
                                   NextId(app_pipelines), source_id, sink_id,
                                   OK)
       ELSE /\ app_pipelines' = app_pipelines
            /\ response' = Request("create_pipeline", tenant_id, 0, source_id,
                                   sink_id, BAD_REQUEST)
    /\ UNCHANGED <<app_sources, app_sinks>>

\* POST /v1/pipelines/{pipeline_id}: the same lookups, then the update of
\* the tenant's row of that id
update_pipeline(tenant_id, pipeline_id, source_id, sink_id) ==
    /\ IF ~ /\ source_exists(app_sources, tenant_id, source_id)
            /\ sink_exists(app_sinks, tenant_id, sink_id)
       THEN /\ app_pipelines' = app_pipelines
            /\ response' = Request("update_pipeline", tenant_id, pipeline_id,
                                   source_id, sink_id, BAD_REQUEST)
       ELSE IF \E p \in app_pipelines :
                   p.tenant_id = tenant_id /\ p.id = pipeline_id
       THEN /\ app_pipelines' =
                   {IF p.tenant_id = tenant_id /\ p.id = pipeline_id
                    THEN [p EXCEPT !.source_id = source_id,
                                   !.sink_id = sink_id]
                    ELSE p : p \in app_pipelines}
            /\ response' = Request("update_pipeline", tenant_id, pipeline_id,
                                   source_id, sink_id, OK)
       ELSE /\ app_pipelines' = app_pipelines
            /\ response' = Request("update_pipeline", tenant_id, pipeline_id,
                                   source_id, sink_id, NOT_FOUND)
    /\ UNCHANGED <<app_sources, app_sinks>>

IdleButApi ==
    UNCHANGED <<pipevars, startvars, decodervars, convvars, storevars,
                diagvars>>

ApiInit ==
    /\ PipelineIdle
    /\ phase_results = NoPhases
    /\ start_traces = NoTraces
    /\ DecoderIdle
    /\ ConvIdle
    /\ MgmtIdle

CreateSource == \E t \in Tenants : create_source(t) /\ IdleButApi

CreateSink == \E t \in Tenants : create_sink(t) /\ IdleButApi

CreatePipeline ==
    \E t \in Tenants, source_id \in Ids(app_sources),
       sink_id \in Ids(app_sinks) :
        create_pipeline(t, source_id, sink_id) /\ IdleButApi

UpdatePipeline ==
    \E t \in Tenants, pipeline_id \in Ids(app_pipelines),
       source_id \in Ids(app_sources), sink_id \in Ids(app_sinks) :
        update_pipeline(t, pipeline_id, source_id, sink_id) /\ IdleButApi

ApiNext ==
    \/ CreateSource
    \/ CreateSink
    \/ CreatePipeline
    \/ UpdatePipeline

SpecApi == ApiInit /\ [][ApiNext]_vars

(***************************************************************************)
(* The storage of a sink's configuration.  A text is the sequence of its   *)
(* bytes.  Base64 is the standard alphabet with padding, a symbol being    *)
(* its 6-bit value and 64 the padding.  The authenticated cipher of        *)
(* crate::encryption is represented by a byte-wise keyed addition followed *)
(* by a one-byte tag: what it keeps of the cipher is that the bytes stored *)
(* are not the text, that they depend on key and nonce, and that opening   *)
(* checks the tag before anything is returned.                             *)
(***************************************************************************)

\* the longest service account key
MaxKeyLen == 2

\* the bytes of the texts: 'a' and '{'
TextBytes == {97, 123}

ServiceAccountKeys == UNION {[1..n -> TextBytes] : n \in 0..MaxKeyLen}

SinkConfigs ==
    [project_id : {"p", "q"}, dataset_id : {"d", "e"},
     service_account_key : ServiceAccountKeys]

\* encryption::EncryptionKey: an id and the key material
EncryptionKeys == [id : {1, 2}, key : {3, 200}]

\* the nonces the random source may give
Nonces == {<<0>>, <<77>>}

StoreErr(e) == [res |-> "Err", val |-> [error |-> e]]

RECURSIVE SumBytes(_)
SumBytes(b) == IF b = <<>> THEN 0 ELSE b[1] + SumBytes(Tail(b))

\* BASE64_STANDARD.encode
RECURSIVE Base64Encode(_)
Base64Encode(b) ==
    IF b = <<>> THEN <<>>
    ELSE IF Len(b) = 1
    THEN <<b[1] \div 4, (b[1] % 4) * 16, 64, 64>>
    ELSE IF Len(b) = 2
    THEN <<b[1] \div 4, (b[1] % 4) * 16 + b[2] \div 16, (b[2] % 16) * 4, 64>>
    ELSE <<b[1] \div 4, (b[1] % 4) * 16 + b[2] \div 16,
           (b[2] % 16) * 4 + b[3] \div 64, b[3] % 64>>
         \o Base64Encode(SubSeq(b, 4, Len(b)))

\* the bytes of a group of four symbols, the last group of a text may be
\* padded
Base64Group(g, last) ==
    IF \A i \in 1..4 : g[i] < 64
    THEN [res |-> "Ok",
          val |-> <<g[1] * 4 + g[2] \div 16, (g[2] % 16) * 16 + g[3] \div 4,
                    (g[3] % 4) * 64 + g[4]>>]
    ELSE IF last /\ g[1] < 64 /\ g[2] < 64 /\ g[3] < 64 /\ g[4] = 64
              /\ g[3] % 4 = 0
    THEN [res |-> "Ok",
          val |-> <<g[1] * 4 + g[2] \div 16, (g[2] % 16) * 16 + g[3] \div 4>>]
    ELSE IF last /\ g[1] < 64 /\ g[2] < 64 /\ g[3] = 64 /\ g[4] = 64
              /\ g[2] % 16 = 0
    THEN [res |-> "Ok", val |-> <<g[1] * 4 + g[2] \div 16>>]
    ELSE StoreErr("Base64Decode")

\* BASE64_STANDARD.decode
RECURSIVE Base64Decode(_)
Base64Decode(t) ==
    IF t = <<>> THEN [res |-> "Ok", val |-> <<>>]
    ELSE IF Len(t) < 4 THEN StoreErr("Base64Decode")
    ELSE LET g == Base64Group(SubSeq(t, 1, 4), Len(t) = 4)
             rest == Base64Decode(SubSeq(t, 5, Len(t)))
         IN  IF g.res # "Ok" THEN g
             ELSE IF rest.res # "Ok" THEN rest
             ELSE [res |-> "Ok", val |-> g.val \o rest.val]

\* the byte the cipher adds at position i
KeyStream(key, nonce, i) == (key + nonce[1] + i) % 256

\* the tag of a text under a key and a nonce
Tag(plaintext, key, nonce) ==
    (SumBytes(plaintext) + 3 * key + nonce[1]) % 256

\* encryption::encrypt: the sealed bytes and the nonce they were sealed with
encrypt(plaintext, key, nonce) ==
    [value |-> [i \in 1..Len(plaintext) |->
                   (plaintext[i] + KeyStream(key, nonce, i)) % 256]
               \o <<Tag(plaintext, key, nonce)>>,
     nonce |-> nonce]

\* encryption::decrypt: the text, if the tag is that of the text under the
\* key and the nonce
decrypt(ciphertext, nonce, key) ==
    IF ciphertext = <<>> THEN StoreErr("Encryption")
    ELSE LET n == Len(ciphertext) - 1
             plaintext ==
                 [i \in 1..n |->
                     (ciphertext[i] + 256 - KeyStream(key, nonce, i)) % 256]
         IN  IF ciphertext[n + 1] = Tag(plaintext, key, nonce)
             THEN [res |-> "Ok", val |-> plaintext]
             ELSE StoreErr("Encryption")

\* Nonce::try_assume_unique_for_key: the bytes have the length of a nonce
try_assume_unique_for_key(b) ==
    IF Len(b) = 1 THEN [res |-> "Ok", val |-> b] ELSE StoreErr("Encryption")

\* std::str::from_utf8, on single-byte characters
from_utf8(b) ==
    IF \A i \in DOMAIN b : b[i] < 128
    THEN [res |-> "Ok", val |-> b]
    ELSE StoreErr("Utf8")

\* SinkConfig::into_db_config; the nonce is the one encrypt drew
into_db_config(config, encryption_key, nonce) ==
    LET sealed == encrypt(config.service_account_key, encryption_key.key,
                          nonce)
        encrypted_sa_key ==
            [id |-> encryption_key.id,
             nonce |-> Base64Encode(sealed.nonce),
             value |-> Base64Encode(sealed.value)]
    IN  [res |-> "Ok",
         val |-> [project_id |-> config.project_id,
                  dataset_id |-> config.dataset_id,
                  service_account_key |-> encrypted_sa_key]]

\* an into_config that does not compare the key ids
into_config_any_key(config, encryption_key) ==
    LET encrypted_sa_key == config.service_account_key
        bytes == Base64Decode(encrypted_sa_key.value)
        nonce_bytes == Base64Decode(encrypted_sa_key.nonce)
        nonce == try_assume_unique_for_key(nonce_bytes.val)
        opened == decrypt(bytes.val, nonce.val, encryption_key.key)
        text == from_utf8(opened.val)
    IN  IF bytes.res # "Ok" THEN bytes
        ELSE IF nonce_bytes.res # "Ok" THEN nonce_bytes
        ELSE IF nonce.res # "Ok" THEN nonce
        ELSE IF opened.res # "Ok" THEN opened
        ELSE IF text.res # "Ok" THEN text
        ELSE [res |-> "Ok",
              val |-> [project_id |-> config.project_id,
                       dataset_id |-> config.dataset_id,
                       service_account_key |-> text.val]]

\* SinkConfigInDb::into_config
into_config(config, encryption_key) ==
    IF config.service_account_key.id # encryption_key.id
    THEN StoreErr("MismatchedKeyId")
    ELSE into_config_any_key(config, encryption_key)

StoreInit ==
    /\ PipelineIdle
    /\ phase_results = NoPhases
    /\ start_traces = NoTraces
    /\ DecoderIdle
    /\ ConvIdle
    /\ ApiIdle
    /\ sink_config \in SinkConfigs
    /\ write_key \in EncryptionKeys
    /\ read_key \in EncryptionKeys
    /\ config_in_db = NoResult
    /\ config_read = NoResult
    /\ DiagIdle

IdleButStore ==
    UNCHANGED <<pipevars, startvars, decodervars, convvars, apivars,
                sink_config, write_key, read_key, diagvars>>

\* the configuration is stored under write_key
StoreConfig ==
    /\ config_in_db = NoResult
    /\ \E nonce \in Nonces :
          config_in_db' = into_db_config(sink_config, write_key, nonce)
    /\ UNCHANGED config_read
    /\ IdleButStore

\* the stored configuration is read back under read_key
ReadConfig ==
    /\ config_in_db.res = "Ok"
    /\ config_read = NoResult
    /\ config_read' = into_config(config_in_db.val, read_key)
    /\ UNCHANGED config_in_db
    /\ IdleButStore

StoreNext ==
    \/ StoreConfig
    \/ ReadConfig

SpecStore == StoreInit /\ [][StoreNext]_vars

(***************************************************************************)
(* What the diagnostic formatting of a SinkConfig (Debug) and of the       *)
(* DatabaseSettings (Display) writes: the sequence of the pieces written,  *)
(* a literal of the format string or the value of a field.                 *)
(***************************************************************************)

\* Option<Secret<String>>
Passwords == {<<>>, <<"s">>, <<"t">>}

DatabaseSettings ==
    [host : {"localhost", "db"}, port : {5432}, name : {"postgres"},
     username : {"u", "v"}, password : Passwords, require_ssl : BOOLEAN]

\* the Debug the derive macro would write: every field as it is
sink_config_debug_derived(config) ==
    <<"BigQuery", "project_id", config.project_id, "dataset_id",
      config.dataset_id, "service_account_key", config.service_account_key>>

\* impl Debug for SinkConfig
sink_config_debug(config) ==
    <<"BigQuery", "project_id", config.project_id, "dataset_id",
      config.dataset_id, "service_account_key", "REDACTED">>

\* impl Display for DatabaseSettings
database_settings_display(settings) ==
    <<"    host: ", settings.host, "\n",
      "    port: ", settings.port, "\n",
      "    name: ", settings.name, "\n",
      "    username: ", settings.username, "\n",
      "    password: REDACTED", "\n",
      "    require_ssl: ", settings.require_ssl, "\n">>

\* the formatting of a value of either type
Format(kind, v) ==
    IF kind = "SinkConfig" THEN sink_config_debug(v)
    ELSE database_settings_display(v)

DiagInputs ==
    [kind : {"SinkConfig"}, a : SinkConfigs, b : SinkConfigs]
        \cup [kind : {"DatabaseSettings"}, a : DatabaseSettings,
              b : DatabaseSettings]

DiagInit ==
    /\ PipelineIdle
    /\ phase_results = NoPhases
    /\ start_traces = NoTraces
    /\ DecoderIdle
    /\ ConvIdle
    /\ ApiIdle
    /\ StoreIdle
    /\ diag_in \in DiagInputs
    /\ diag_out = <<>>

\* both values are formatted
FormatBoth ==
    /\ diag_out = <<>>
    /\ diag_out' = <<Format(diag_in.kind, diag_in.a),
                     Format(diag_in.kind, diag_in.b)>>
    /\ UNCHANGED <<pipevars, startvars, decodervars, convvars, apivars,
                   storevars, diag_in>>

DiagNext == FormatBoth

SpecDiag == DiagInit /\ [][DiagNext]_vars

(***************************************************************************)
(* Properties of a run, stated over the trace of port calls.               *)
(***************************************************************************)
Last(q) == q[Len(q)]

CallsOf(op) == {i \in DOMAIN calls : calls[i].op = op}

\* the call op(t) was made and succeeded
Succeeded(op, t) ==
    \E i \in CallsOf(op) : calls[i].table = t /\ calls[i].ok

CopyOps ==
    {"truncate_table", "get_table_copy_stream", "write_table_rows",
     "table_copied"}

\* C1: no truncate_table, get_table_copy_stream, write_table_rows or
\* table_copied call is ever made for a table of resumption.copied_tables, and
\* once the loop of copy_tables is through (commit_transaction is called)
\* every catalog table outside copied_tables has been truncated, streamed and
\* marked copied.
C1_CopiedTablesAreSkipped ==
    /\ \A i \in DOMAIN calls :
          calls[i].op \in CopyOps
             => calls[i].table \notin resumption_state.copied_tables
    /\ CallsOf("commit_transaction") # {}
          => \A t \in table_schemas \ resumption_state.copied_tables :
                /\ Succeeded("truncate_table", t)
                /\ Succeeded("get_table_copy_stream", t)
                /\ Succeeded("table_copied", t)

\* a Both run with table 1 already copied has copied table 2 and committed
C1_Witness ==
    /\ action = "Both"
    /\ table_schemas = {1, 2}
    /\ resumption_state.copied_tables = {1}
    /\ Succeeded("table_copied", 2)
    /\ Succeeded("commit_transaction", 0)

\* b is the LSN that follows a: a + 1 as a number, not modulo 2^64
IsNextLsn(a, b) == b = WrappingSucc(a) /\ LsnLess(a, b)

\* C2: a Both or CdcOnly run opens the CDC stream once, at exactly
\* last_lsn + 1 for the last_lsn the sink reported, whatever 64-bit value
\* that is; with an empty sink state it opens at LSN 1 after copying every
\* table.
C2_CdcOpensAtNextLsn ==
    /\ pc # "panicked"
    /\ Cardinality(CallsOf("get_cdc_stream")) <= 1
    /\ \A i \in CallsOf("get_cdc_stream") :
          IsNextLsn(resumption_state.last_lsn, calls[i].data)
    /\ pc \in {"cdc", "cdc_body", "done"} /\ action # "TableCopiesOnly"
          => Succeeded("get_cdc_stream", 0)
    /\ ( /\ pc \in {"cdc", "cdc_body", "done"}
         /\ action = "Both"
         /\ resumption_state = [copied_tables |-> {}, last_lsn |-> LsnZero] )
          => /\ \A t \in table_schemas : Succeeded("table_copied", t)
             /\ \A i \in CallsOf("get_cdc_stream") : calls[i].data = Lsn(1)

\* C3: every write_table_rows(_, T) comes after a successful
\* truncate_table(T) of the run, and truncate_table(T) is called at most
\* once.
C3_TruncateBeforeRows ==
    /\ \A i \in CallsOf("write_table_rows") :
          \E j \in 1..(i - 1) :
             /\ calls[j].op = "truncate_table"
             /\ calls[j].table = calls[i].table
             /\ calls[j].ok
    /\ \A i, j \in CallsOf("truncate_table") :
          calls[i].table = calls[j].table => i = j

\* a table has received two batches of rows, and another table was copied
\* before it
C3_Witness ==
    \E i, j \in CallsOf("write_table_rows") :
       /\ i < j
       /\ calls[i].table = calls[j].table
       /\ \E k \in CallsOf("table_copied") : k < i

\* b may directly follow a in the trace of a Both run
MayFollow(a, b) ==
    /\ a.ok
    /\ CASE b.op = "get_resumption_state" -> FALSE
         [] b.op = "write_table_schemas" -> a.op = "get_resumption_state"
         [] b.op = "truncate_table" ->
               \/ a.op = "write_table_schemas"
               \/ a.op = "table_copied" /\ a.table # b.table
         [] b.op = "get_table_copy_stream" ->
               a.op = "truncate_table" /\ a.table = b.table
         [] b.op \in {"write_table_rows", "table_copied"} ->
               /\ a.op \in {"get_table_copy_stream", "write_table_rows"}
               /\ a.table = b.table
         [] b.op = "commit_transaction" ->
               a.op \in {"get_resumption_state", "write_table_schemas",
                         "table_copied"}
         [] b.op = "get_cdc_stream" -> a.op = "commit_transaction"
         [] b.op = "write_cdc_events" ->
               a.op \in {"get_cdc_stream", "write_cdc_events"}

\* C4: the trace of a Both run starts with get_resumption_state, has
\* write_table_schemas (when it is called) second, then one contiguous block
\* truncate_table(T), get_table_copy_stream(T), write_table_rows(_, T)*,
\* table_copied(T) per table, no table twice, then commit_transaction, then
\* get_cdc_stream, then write_cdc_events calls only.
C4_BothCallOrder ==
    action = "Both" =>
       /\ \A i \in DOMAIN calls :
             (i = 1) <=> (calls[i].op = "get_resumption_state")
       /\ \A i \in 1..(Len(calls) - 1) : MayFollow(calls[i], calls[i + 1])
       /\ \A i \in DOMAIN calls :
             calls[i].op = "table_copied"
                => \A j \in (i + 1)..Len(calls) :
                      calls[j].op \in CopyOps
                         => calls[i].table # calls[j].table

\* a finished Both run that copied two tables, one of them in two batches,
\* and delivered a CDC batch
C4_Witness ==
    /\ action = "Both"
    /\ pc = "done"
    /\ Cardinality(CallsOf("table_copied")) = 2
    /\ \E i, j \in CallsOf("write_table_rows") :
          i # j /\ calls[i].table = calls[j].table
    /\ CallsOf("write_cdc_events") # {}

\* C5: a vector passed to write_cdc_events ends with a Commit or a
\* KeepAliveRequested, unless the upstream ended while it was being filled:
\* then it is the last batch and reaches to the last item received.
C5_CdcBatchEndsOnBoundary ==
    \A i \in CallsOf("write_cdc_events") :
       \/ Last(calls[i].data).kind \in {"Commit", "KeepAliveRequested"}
       \/ /\ stream_ended
          /\ i = Len(calls)
          /\ Last(calls[i].data) = Last(received)

\* a delivered batch that passed max_size inside a transaction and was held
\* until the Commit
C5_Witness ==
    \E i \in CallsOf("write_cdc_events") :
       /\ Len(calls[i].data) > batch_config.max_size
       /\ calls[i].data[1].kind = "Insert"
       /\ Last(calls[i].data).kind = "Commit"

(***************************************************************************)
(* Properties of the batch-timeout stream, stated over the items it        *)
(* received and the batches it returned.                                   *)
(***************************************************************************)
RECURSIVE Concat(_)
\* the batches of q, one after the other
Concat(q) == IF q = <<>> THEN <<>> ELSE q[1] \o Concat(Tail(q))

RECURSIVE SumLen(_)
SumLen(q) == IF q = <<>> THEN 0 ELSE Len(q[1]) + SumLen(Tail(q))

\* the items that may end a batch: every item of a COPY stream, and of the
\* CDC stream a Commit, a KeepAliveRequested or an error
EndsBatch(x) == x.kind \in {"Row", "Err", "Commit", "KeepAliveRequested"}

\* C6: no batch the stream returns is empty.
C6_NoEmptyBatch ==
    /\ \A i \in DOMAIN emitted : Len(emitted[i]) > 0
    /\ pc \in {"copy_body", "cdc_body"} => Len(batch) > 0

\* the upstream ended on an empty in-progress batch, after a batch was
\* returned
C6_Witness ==
    /\ stream_ended
    /\ pc \in {"mark_copied", "done"}
    /\ Len(emitted) = 1
    /\ Last(emitted) # <<>>
    /\ Last(Last(emitted)).kind \in {"Row", "Commit"}
    /\ Len(Last(emitted)) = batch_config.max_size

\* C7: once the upstream has ended, the batches returned, one after the
\* other, are the upstream sequence: nothing lost, duplicated or reordered,
\* and their lengths add up to the number of items received.
C7_BatchesAreTheUpstream ==
    stream_ended =>
       /\ Concat(emitted) = received
       /\ SumLen(emitted) = Len(received)

\* an ended stream that returned its items in more than one batch
C7_Witness ==
    /\ stream_ended
    /\ Len(emitted) >= 2
    /\ Len(received) >= 2

TimerFires ==
    /\ Len(emitted') = Len(emitted) + 1
    /\ received' = received
    /\ stream_ended' = stream_ended

C10_UpstreamEnd ==
    [][ /\ (~stream_ended /\ stream_ended')
              => IF items # <<>>
                 THEN /\ emitted' = Append(emitted, items)
                      /\ batch' = items
                      /\ pc' = Body(pc)
                 ELSE /\ emitted' = emitted
                      /\ pc' = Exit(pc)
        /\ (stream_ended /\ stream_ended') => emitted' = emitted
        /\ (stream_ended /\ pc \in Polling) => pc' = Exit(pc) ]_vars

\* the CDC stream ended inside a transaction: its last batch ends on an
\* Insert and the loop is left
C10_Witness ==
    /\ stream_ended
    /\ pc = "done"
    /\ emitted # <<>>
    /\ Last(Last(emitted)).kind = "Insert"

(***************************************************************************)
(* Properties of the phases of a run.                                      *)
(***************************************************************************)
\* the run is past copy_table_schemas
PastSchemas ==
    \/ pc \notin {"start", "schemas", "failed"}
    \/ pc = "failed" /\ Len(calls) >= 2 /\ calls[1].ok /\ calls[2].ok

\* C11 as stated: a run that is past copy_table_schemas has called
\* write_table_schemas exactly once, whatever the schema map holds.
C11_SchemasWrittenOnce ==
    PastSchemas => Cardinality(CallsOf("write_table_schemas")) = 1

\* C11 amended: write_table_schemas is called at most once, as the second
\* call of the run; a run past copy_table_schemas has called it if and only
\* if the schema map is not empty; truncate_table and write_table_rows calls
\* always come after it, CDC calls come after it when the map is not empty.
C11_SchemasWrittenUnlessEmpty ==
    /\ \A i \in CallsOf("write_table_schemas") : i = 2
    /\ PastSchemas
          => (CallsOf("write_table_schemas") # {} <=> table_schemas # {})
    /\ \A i \in DOMAIN calls :
          ( \/ calls[i].op \in {"truncate_table", "write_table_rows"}
            \/ /\ calls[i].op \in {"get_cdc_stream", "write_cdc_events"}
               /\ table_schemas # {} )
             => calls[2] = Call("write_table_schemas", 0, <<>>, TRUE)

\* a Both run over an empty schema map went through to CDC and never called
\* write_table_schemas
C11_Witness ==
    /\ action = "Both"
    /\ table_schemas = {}
    /\ pc = "done"
    /\ CallsOf("write_cdc_events") # {}
    /\ CallsOf("write_table_schemas") = {}

(***************************************************************************)
(* Properties of start across the three actions.                           *)
(***************************************************************************)
IsPrefix(p, q) == Len(p) <= Len(q) /\ SubSeq(q, 1, Len(p)) = p

IsStrictPrefix(p, q) == IsPrefix(p, q) /\ Len(p) < Len(q)

HasCall(q, op) == \E i \in DOMAIN q : q[i].op = op

IsCopyPhaseCall(c) == c.op \in CopyOps \cup {"commit_transaction"}

IsNotCopyPhaseCall(c) == ~IsCopyPhaseCall(c)

\* C12 as stated: against the same source and sink, the calls of a
\* TableCopiesOnly run and the calls of a CdcOnly run are each a strict
\* prefix of the calls of a Both run.
C12_StrictPrefixes ==
    start_traces # NoTraces
       => /\ IsStrictPrefix(start_traces["TableCopiesOnly"], start_traces["Both"])
          /\ IsStrictPrefix(start_traces["CdcOnly"], start_traces["Both"])

\* C12 amended: the calls of a TableCopiesOnly run are a prefix of the calls
\* of a Both run, strict exactly when its last call is a successful
\* commit_transaction and the Both run goes on to get_cdc_stream; the calls
\* of a CdcOnly run are those of the Both run without its copy-phase calls
\* (truncate_table .. commit_transaction) when the copy phase of the Both run
\* succeeds, they extend them when it fails, and they are a prefix of the
\* Both run's calls only if the CdcOnly run makes no CDC call.
C12_CopyIsPrefixCdcIsRest ==
    start_traces # NoTraces
       => LET t == start_traces["TableCopiesOnly"]
              c == start_traces["CdcOnly"]
              b == start_traces["Both"]
              rest == SelectSeq(b, IsNotCopyPhaseCall)
              committed ==
                  \E i \in DOMAIN b : b[i].op = "commit_transaction" /\ b[i].ok
          IN  /\ IsPrefix(t, b)
              /\ Len(t) < Len(b)
                    <=> /\ Last(t) = Call("commit_transaction", 0, <<>>, TRUE)
                        /\ HasCall(b, "get_cdc_stream")
              /\ IsPrefix(rest, c)
              /\ committed => rest = c
              /\ IsPrefix(c, b) => ~HasCall(c, "get_cdc_stream")

\* the three runs went through all their phases: the Both run copied a
\* table and delivered a CDC batch, the CdcOnly run delivered the same batch
C12_Witness ==
    /\ start_traces # NoTraces
    /\ HasCall(start_traces["TableCopiesOnly"], "table_copied")
    /\ Last(start_traces["TableCopiesOnly"]).op = "commit_transaction"
    /\ HasCall(start_traces["CdcOnly"], "write_cdc_events")
    /\ ~HasCall(start_traces["CdcOnly"], "commit_transaction")
    /\ HasCall(start_traces["Both"], "table_copied")
    /\ Last(start_traces["Both"]).op = "write_cdc_events"

(***************************************************************************)
(* Properties of the copy of one table.                                    *)
(***************************************************************************)
\* some item of q is an error
AnyErr(q) == \E i \in DOMAIN q : q[i].kind = "Err"

RECURSIVE DeliveredRows(_, _)
\* the rows of the successful write_table_rows(_, t) among the first n calls
DeliveredRows(t, n) ==
    IF n = 0
    THEN <<>>
    ELSE DeliveredRows(t, n - 1)
         \o (IF /\ calls[n].op = "write_table_rows"
                /\ calls[n].table = t
                /\ calls[n].ok
             THEN calls[n].data
             ELSE <<>>)

\* C13: when table_copied(T) is called, every earlier call for T succeeded,
\* the COPY stream of T has ended with nothing left in hand, and the rows it
\* produced are, in order, exactly the rows of the successful
\* write_table_rows(_, T) calls, none of them an error; after a failed
\* truncate_table, get_table_copy_stream or write_table_rows for T, or a row
\* error in the stream of T, table_copied(T) is never called.
C13_CopiedOnlyAfterAllRows ==
    /\ \A i \in CallsOf("table_copied") :
          LET t == calls[i].table
          IN  /\ \A j \in 1..(i - 1) : calls[j].table = t => calls[j].ok
              /\ \E j \in 1..(i - 1) :
                    calls[j] = Call("get_table_copy_stream", t, <<>>, TRUE)
              /\ ~AnyErr(DeliveredRows(t, i))
              /\ i = Len(calls)
                    => /\ stream_ended
                       /\ items = <<>>
                       /\ batch = <<>>
                       /\ received = DeliveredRows(t, i)
    /\ \A k \in DOMAIN calls :
          (calls[k].op \in CopyOps \ {"table_copied"} /\ ~calls[k].ok)
             => \A i \in CallsOf("table_copied") :
                   calls[i].table # calls[k].table
    /\ (cur # 0 /\ pc \in {"copying", "copy_body", "failed"}
           /\ AnyErr(received))
          => \A i \in CallsOf("table_copied") : calls[i].table # cur

\* table_copied has just been called for a table whose two rows went to the
\* sink in two batches
C13_Witness ==
    /\ calls # <<>>
    /\ Last(calls).op = "table_copied"
    /\ Last(calls).ok
    /\ Len(received) = 2
    /\ Len(emitted) = 2
    /\ received = DeliveredRows(Last(calls).table, Len(calls))

\* the batches returned by the current stream before the last one
EarlierBatches == Concat(SubSeq(emitted, 1, Len(emitted) - 1))

\* C14: no write_table_rows call carries an error item; once the COPY stream
\* of a table has yielded an error, the error is in the batch the stream is
\* filling, or in the batch the loop body has in hand, or the run has failed
\* with the rows delivered being those of the batches before the error batch
\* (no row of the error batch, none after it) and the last call of the run
\* being the successful one that preceded the error batch.
C14_RowErrorFailsRun ==
    /\ \A i \in CallsOf("write_table_rows") : ~AnyErr(calls[i].data)
    /\ (cur # 0 /\ AnyErr(received))
          => \/ pc = "copying" /\ AnyErr(items)
             \/ pc = "copy_body" /\ AnyErr(batch)
             \/ /\ pc = "failed"
                /\ AnyErr(Last(emitted))
                /\ DeliveredRows(cur, Len(calls)) = EarlierBatches
                /\ Last(calls).table = cur
                /\ Last(calls).ok
                /\ Last(calls).op
                      \in {"get_table_copy_stream", "write_table_rows"}

\* the run failed on a batch of a good row followed by an error: the good
\* row was not written
C14_Witness ==
    /\ pc = "failed"
    /\ cur # 0
    /\ emitted # <<>>
    /\ Len(Last(emitted)) = 2
    /\ Last(emitted)[1].kind = "Row"
    /\ Last(emitted)[2].kind = "Err"
    /\ DeliveredRows(cur, Len(calls)) = <<>>

(***************************************************************************)
(* Properties of the CDC loop.                                             *)
(***************************************************************************)
RECURSIVE DeliveredEvents(_)
\* the events of the successful write_cdc_events among the first n calls
DeliveredEvents(n) ==
    IF n = 0
    THEN <<>>
    ELSE DeliveredEvents(n - 1)
         \o (IF calls[n].op = "write_cdc_events" /\ calls[n].ok
             THEN calls[n].data
             ELSE <<>>)

\* C15: no write_cdc_events call carries an error item; once the CDC stream
\* has yielded an error, the error is in the batch the stream is filling, or
\* in the batch the loop body has in hand, or the run has failed with the
\* events delivered being those of the batches before the error batch and
\* the last call of the run being the successful one that preceded it.
C15_EventErrorFailsRun ==
    /\ \A i \in CallsOf("write_cdc_events") : ~AnyErr(calls[i].data)
    /\ (CallsOf("get_cdc_stream") # {} /\ AnyErr(received))
          => \/ pc = "cdc" /\ AnyErr(items)
             \/ pc = "cdc_body" /\ AnyErr(batch)
             \/ /\ pc = "failed"
                /\ AnyErr(Last(emitted))
                /\ DeliveredEvents(Len(calls)) = EarlierBatches
                /\ Last(calls).ok
                /\ Last(calls).op \in {"get_cdc_stream", "write_cdc_events"}

\* the run delivered one batch of events and failed on the next, which held
\* an error
C15_Witness ==
    /\ pc = "failed"
    /\ CallsOf("get_cdc_stream") # {}
    /\ Len(emitted) = 2
    /\ AnyErr(emitted[2])
    /\ DeliveredEvents(Len(calls)) = emitted[1]
    /\ Last(calls).op = "write_cdc_events"

(***************************************************************************)
(* A sequence of runs against the same source and sink.  A run ends when   *)
(* start returns or panics, or when its task is dropped at an await point; *)
(* the next run is a new pipeline on the same sink, whose state persists.  *)
(***************************************************************************)
\* the tables the run began to copy and did not mark copied
CutShort ==
    {t \in Tables : /\ \E i \in CallsOf("truncate_table") : calls[i].table = t
                    /\ ~Succeeded("table_copied", t)}

\* the tables the run marked copied
MarkedNow == {t \in Tables : Succeeded("table_copied", t)}

Restart ==
    /\ pc # "start"
    /\ action' \in PipelineActions
    /\ table_schemas' \in {s \in SUBSET Tables : table_schemas \subseteq s}
    /\ history' =
          [marked |-> history.marked \cup MarkedNow,
           acked |-> sink_state.last_lsn,
           retry |-> CutShort,
           added |-> table_schemas' \ table_schemas]
    /\ resumption_state' = [copied_tables |-> {}, last_lsn |-> LsnZero]
    /\ pc' = "start"
    /\ visited' = {}
    /\ cur' = 0
    /\ NewStream
    /\ calls' = <<>>
    /\ UNCHANGED <<batch_config, sink_state, wal, startvars, decodervars,
                   convvars, mgmtvars>>

\* the first run of the sequence: a sink that holds no table yet, batches
\* of one item
RunsInit ==
    /\ Init
    /\ batch_config = [max_size |-> 1, max_fill |-> MaxFillTicks]
    /\ sink_state.copied_tables = {}
    /\ sink_state.last_lsn \in {Lsn(100), LsnMax}

RunsNext == Next \/ Restart

SpecRuns == RunsInit /\ [][RunsNext]_vars

\* the run truncated t and marked it copied
CopiedNow(t) == Succeeded("truncate_table", t) /\ Succeeded("table_copied", t)

\* the copy loop of the run is through
LoopThrough == CallsOf("commit_transaction") # {}

\* C16 as stated: in a run that returned Ok, whatever its action, a table of
\* the catalog was truncated and copied if and only if no earlier run had
\* marked it copied.
C16_CopiedIffAbsent ==
    pc = "done"
       => \A t \in table_schemas : CopiedNow(t) <=> t \notin history.marked

\* C16 amended: the copied_tables a run reads are the tables earlier runs
\* marked, and the sink holds those and the ones this run marked; no run
\* makes a copy call for a table marked earlier; in a TableCopiesOnly or
\* Both run whose copy loop is through, a table of the catalog was truncated
\* and copied if and only if it was not marked earlier, which includes the
\* tables whose copy the previous run cut short and the tables added to the
\* catalog since; a CdcOnly run makes no copy call.
C16_CopiedIffAbsentInCopyRuns ==
    /\ (calls # <<>> /\ calls[1].ok)
          => resumption_state.copied_tables = history.marked
    /\ sink_state.copied_tables = history.marked \cup MarkedNow
    /\ \A i \in DOMAIN calls :
          calls[i].op \in CopyOps
             => calls[i].table \notin history.marked /\ action # "CdcOnly"
    /\ (history.retry \cup history.added) \cap history.marked = {}
    /\ history.retry \cup history.added \subseteq table_schemas
    /\ LoopThrough
          => \A t \in table_schemas : CopiedNow(t) <=> t \notin history.marked

\* the run before copied one table and was cut short in the copy of a second;
\* this run skipped the first and copied the second again, rows included
C16_Witness ==
    /\ LoopThrough
    /\ \E t \in history.marked, u \in history.retry :
          /\ t # u
          /\ t \in table_schemas
          /\ ~Succeeded("truncate_table", t)
          /\ CopiedNow(u)
          /\ \E i \in CallsOf("write_table_rows") : calls[i].table = u

\* the place in the log of the record whose LSN the sink reports, 0 when it
\* reports the LSN it held before the first run
AckPos == IF PosOf(sink_state.last_lsn) <= Len(wal)
          THEN PosOf(sink_state.last_lsn)
          ELSE 0

\* every run that comes to the CDC phase opens the stream, at the LSN right
\* after the one the sink had acknowledged when the run began, and every log
\* record up to the one the sink reports has been written to the sink
CdcResumes ==
    /\ pc # "panicked"
    /\ \A i \in CallsOf("get_cdc_stream") :
          IsNextLsn(history.acked, calls[i].data)
    /\ \A j \in 1..AckPos : j \in sink_state.written

\* C17: after a run that failed or was dropped during CDC, the next run
\* opens CDC right after the last LSN the sink acknowledged, and no log
\* record after that LSN is skipped: the records the sink has acknowledged
\* have all been written to it.
C17_ResumesAfterAck == CdcResumes

\* the same for a sink that has not acknowledged 2^64 - 1
ResumesBelowMaxLsn == history.acked # LsnMax => CdcResumes

\* a run that resumed after an acknowledged record and wrote the next one
ResumedAndWrote ==
    /\ history.acked \in {wal[j] : j \in DOMAIN wal}
    /\ CallsOf("write_cdc_events") # {}
    /\ AckPos = Len(wal)

(***************************************************************************)
(* The resumption state of a run.                                          *)
(***************************************************************************)
\* the for loop of copy_tables passed t without a call for it
Skipped(t) == t \in visited /\ \A i \in DOMAIN calls : calls[i].table # t

\* C18: get_resumption_state is called once, as the first call of the run;
\* what it returned is what the sink held when the run began and stays what
\* the run works from, whatever table_copied and write_cdc_events have done
\* to the sink since: a table the loop has passed was skipped if and only if
\* it was in that reading, and the CDC stream is opened at the LSN that
\* follows the one of that reading.
C18_ResumptionReadOnce ==
    /\ \A i \in DOMAIN calls : (calls[i].op = "get_resumption_state") <=> (i = 1)
    /\ (calls # <<>> /\ calls[1].ok)
          => resumption_state =
                [copied_tables |-> history.marked, last_lsn |-> history.acked]
    /\ \A t \in visited : Skipped(t) <=> t \in history.marked
    /\ \A i \in CallsOf("get_cdc_stream") :
          calls[i].data = WrappingSucc(history.acked)

\* a Both run that skipped a table, copied another and wrote a transaction:
\* the sink has moved on in both fields, the reading has not
C18_Witness ==
    /\ action = "Both"
    /\ \E t \in visited : Skipped(t)
    /\ sink_state.copied_tables # history.marked
    /\ sink_state.last_lsn # history.acked
    /\ resumption_state.copied_tables = history.marked
    /\ resumption_state.last_lsn = history.acked

(***************************************************************************)
(* Properties of the CDC decoder.                                          *)
(***************************************************************************)
\* the decoder was called with a Delete message for a table with a schema
DeleteDecoded ==
    /\ decoded # NoResult
    /\ message.tag = "Delete"
    /\ message.rel \in DOMAIN decoder_schemas

C20_MissingSchema ==
    decoded # NoResult
       => /\ ( /\ message.tag \in {"Insert", "Update", "Delete"}
               /\ message.rel \notin DOMAIN decoder_schemas )
             => decoded = Err("MissingSchema", message.rel)
          /\ message.tag
                \in {"Begin", "Commit", "Relation", "Type", "PrimaryKeepAlive"}
             => /\ decoded.res = "Ok"
                /\ decoded = try_from(message, NoSchemas)

\* an Update whose table is not in a non-empty schema map, and whose tuples
\* would convert
C20_Witness ==
    /\ decoded = Err("MissingSchema", message.rel)
    /\ message.tag = "Update"
    /\ decoder_schemas # NoSchemas
    /\ message.key # None
    /\ message.new # <<>>

(***************************************************************************)
(* C21: the decoder gives every top-level message kind its one outcome:    *)
(* Begin, Commit, Relation and Type become the event of the same name,     *)
(* Origin and Truncate fail with MessageNotSupported, PrimaryKeepAlive     *)
(* with flag r becomes KeepAliveRequested{reply = (r = 1)}, every message  *)
(* the decoder has no arm for fails with UnknownReplicationMessage; a call *)
(* always ends in an event or an error, never in nothing.                  *)
(***************************************************************************)
C21_MessageKinds ==
    decoded # NoResult =>
        /\ decoded.res \in {"Ok", "Err", "Panic"}
        /\ message.tag \in {"Begin", "Commit", "Relation", "Type"} =>
               decoded = [res |-> "Ok", val |-> [kind |-> message.tag]]
        /\ message.tag \in {"Origin", "Truncate"} =>
               decoded = [res |-> "Err",
                          val |-> [error |-> "MessageNotSupported",
                                   table_id |-> 0]]
        /\ message.tag = "PrimaryKeepAlive" =>
               decoded = [res |-> "Ok",
                          val |-> [kind |-> "KeepAliveRequested",
                                   reply |-> (message.reply = 1)]]
        /\ message.tag \notin {"Begin", "Commit", "Relation", "Type", "Origin",
                                "Truncate", "PrimaryKeepAlive", "Insert",
                                "Update", "Delete"} =>
               decoded = [res |-> "Err",
                          val |-> [error |-> "UnknownReplicationMessage",
                                   table_id |-> 0]]

\* a keep-alive whose flag is neither 0 nor 1 was decoded and asks for no
\* reply
C21_Witness ==
    /\ message.tag = "PrimaryKeepAlive"
    /\ message.reply = 2
    /\ decoded.res = "Ok"
    /\ decoded.val.reply = FALSE

\* the decoder was called with an Insert, Update or Delete message for a
\* table with a schema
RowMessageDecoded ==
    /\ decoded # NoResult
    /\ message.tag \in {"Insert", "Update", "Delete"}
    /\ message.rel \in DOMAIN decoder_schemas

\* the tuples of the message the decoder converts, in the order it converts
\* them: the new tuple of an Insert; the key, old and new tuples of an
\* Update; the key tuple of a Delete, or its old tuple when it has no key
\* tuple
ConvertedTuples ==
    CASE message.tag = "Insert" -> <<message.new>>
      [] message.tag = "Update" -> message.key \o message.old \o <<message.new>>
      [] message.tag = "Delete" ->
           IF message.key # None THEN message.key ELSE message.old
      [] OTHER -> <<>>

\* the datum of every schema column in every converted tuple, in that
\* order; a tuple shorter than the schema has no datum for its last columns
ConvertedData ==
    LET cs == decoder_schemas[message.rel]
        Of(t) == [i \in 1..Len(cs) |->
                     [typ |-> cs[i],
                      val |-> IF i <= Len(t) THEN t[i]
                              ELSE TupleData("Missing", "")]]
    IN  Concat([k \in 1..Len(ConvertedTuples) |-> Of(ConvertedTuples[k])])

\* the cell the rules give for a datum under a column type, when they give
\* one: Null whatever the type; of a Text datum, for BOOL the literal t or
\* f, for INT2, INT4 and INT8 a signed decimal number, for a type without
\* a rule the raw bytes
RuleCell(typ, val) ==
    CASE val.tag = "Null" -> Some(Cell("Null", ""))
      [] val.tag = "Text" /\ typ = "BOOL" /\ val.bytes \in {"t", "f"} ->
           Some(Cell("Bool", IF val.bytes = "t" THEN "true" ELSE "false"))
      [] val.tag = "Text" /\ typ \in {"INT2", "INT4", "INT8"}
            /\ val.bytes \in {"0", "7", "-1"} ->
           Some(Cell(CASE typ = "INT2" -> "I16" [] typ = "INT4" -> "I32"
                       [] OTHER -> "I64", val.bytes))
      [] val.tag = "Text" /\ typ \notin {"BOOL", "INT2", "INT4", "INT8"} ->
           Some(Cell("Bytes", val.bytes))
      [] OTHER -> None

\* the row the rules give for a tuple that is as long as the schema, every
\* datum of which has a cell
RuleRow(cs, t) == [values |-> [i \in 1..Len(cs) |-> RuleCell(cs[i], t[i])[1]]]

RuleOptionalRow(cs, t) == IF t = None THEN None ELSE Some(RuleRow(cs, t[1]))

\* some datum of the key, old or new tuple of the message is UnchangedToast
HasUnchangedToast ==
    \E t \in {message.new} \cup {message.key[i] : i \in DOMAIN message.key}
                            \cup {message.old[i] : i \in DOMAIN message.old} :
       \E i \in DOMAIN t : t[i].tag = "UnchangedToast"

\* every tuple of the message has as many data as the schema has columns
TuplesFitSchema ==
    \A t \in {message.new} \cup {message.key[i] : i \in DOMAIN message.key}
                            \cup {message.old[i] : i \in DOMAIN message.old} :
       Len(t) = Len(decoder_schemas[message.rel])

ValueDecoded ==
    /\ numeric # NoResult
    /\ raw[3] \in {0, 16384}

\* from_sql returned a decimal
DecimalDecoded ==
    /\ ValueDecoded
    /\ feature # "none"
    /\ numeric.res = "Ok"

\* C23: the sign code 0xC000 decodes to NaN, 0xD000 to +Infinity and 0xF000
\* to -Infinity whatever the other words of the input are, and also when
\* there are none; 0x0000 and 0x4000 are taken for the sign of a value: the
\* result is no sentinel and no sign error, and a decimal that is not zero
\* is negative exactly for 0x4000; every other code fails with the
\* invalid-sign error.
C23_SignCodes ==
    numeric # NoResult
       => /\ raw[3] = 49152 => numeric = [res |-> "Ok",
                                          val |-> [numeric |-> "NaN"]]
          /\ raw[3] = 53248 => numeric = [res |-> "Ok",
                                          val |-> [numeric |-> "PositiveInf"]]
          /\ raw[3] = 61440 => numeric = [res |-> "Ok",
                                          val |-> [numeric |-> "NegativeInf"]]
          /\ raw[3] \in {0, 16384} =>
                /\ numeric.res = "Ok" => numeric.val.numeric = "Value"
                /\ numeric.res = "Err" => numeric.val.error # "invalid sign"
                /\ DecimalDecoded /\ numeric.val.value.m # <<>>
                      => numeric.val.value.neg = (raw[3] = 16384)
          /\ raw[3] \notin {0, 16384, 49152, 53248, 61440} =>
                numeric = [res |-> "Err", val |-> [error |-> "invalid sign"]]

\* NaN was returned for an input whose other words, with the sign of a
\* value, make the fixed-precision decoder panic
C23_Witness ==
    /\ numeric = [res |-> "Ok", val |-> [numeric |-> "NaN"]]
    /\ feature = "rust_decimal"
    /\ raw[2] = 8
    /\ Len(raw) = 5
    /\ from_sql(feature, <<raw[1], raw[2], 0, raw[4], raw[5]>>).res = "Panic"

\* C24: a NUMERIC with the sign code of a value and the declared scale S
\* that decodes to a decimal has the stored scale min(S, 28) on the fixed
\* 128-bit build and S on the arbitrary-precision build.
C24_StoredScale ==
    DecimalDecoded
       => numeric.val.value.scale
             = IF feature = "rust_decimal" /\ raw[4] > 28 THEN 28 ELSE raw[4]

\* the stored scale is never above min(S, 28), and it is min(S, 28) on the
\* arbitrary-precision build and whenever the coefficient at that scale has
\* fewer than 29 digits
StoredScaleWithinCapacity ==
    DecimalDecoded
       => LET d == numeric.val.value
              s == IF feature = "rust_decimal" /\ raw[4] > 28 THEN 28
                   ELSE raw[4]
          IN  /\ d.scale <= s
              /\ feature = "bigdecimal" => d.scale = s
              /\ Len(Normalize(d).m) + (s - Normalize(d).scale) < 29
                    => d.scale = s

RECURSIVE Digits10(_)
\* the decimal digits of a sequence of base-10000 digits
Digits10(digits) ==
    IF digits = <<>> THEN <<>> ELSE Pad4(digits[1]) \o Digits10(Tail(digits))

\* sum(digit_i * 10000^(weight - i)) over the n_digits digits of the input,
\* at its least scale
ExactValue ==
    LET n == raw[1]
        m == Strip(Digits10(SubSeq(raw, 5, 4 + n)))
        e == 4 * (raw[2] - n + 1)
    IN  IF e >= 0 THEN Decimal(FALSE, Shift(m, e), 0)
        ELSE Normalize(Decimal(FALSE, m, -e))

\* the input has the sign code of a value, all of its digits, and a value
\* with no more decimals than the declared scale and than 28
CompleteValue ==
    /\ ValueDecoded
    /\ Len(raw) >= 4 + raw[1]
    /\ ExactValue.scale <= raw[4]
    /\ ExactValue.scale <= 28

\* the decoded decimal is sign * sum(digit_i * 10000^(weight - i))
DecodedExactly ==
    /\ numeric.res = "Ok"
    /\ Normalize(numeric.val.value).m = ExactValue.m
    /\ Normalize(numeric.val.value).scale = ExactValue.scale
    /\ ExactValue.m # <<>> => numeric.val.value.neg = (raw[3] = 16384)

\* C25: on a build with a decimal backend every NUMERIC with the sign code
\* of a value decodes to sign * sum(digit_i * 10000^(weight - i)), or, when
\* that value is beyond the capacity of the decimal, to a decode error.
C25_DecodedValue ==
    CompleteValue /\ feature # "none"
       => \/ DecodedExactly
          \/ /\ numeric.res = "Err"
             /\ ~Fits96(ExactValue.m)

\* the same, but for the inputs the fixed-precision decoder panics on:
\* those with an integer part whose digits are followed by eight or more
\* base-10000 zeros
DecodedValueUnlessAbort ==
    CompleteValue /\ feature # "none"
       => \/ DecodedExactly
          \/ /\ numeric.res = "Err"
             /\ ~Fits96(ExactValue.m)
          \/ /\ numeric.res = "Panic"
             /\ feature = "rust_decimal"
             /\ raw[2] + 1 - raw[1] >= 8

\* -1.23 was decoded from digits [1, 2300], weight 0, negative, scale 2
DecodedMinusOneTwentyThree ==
    /\ raw = <<2, 0, 16384, 2, 1, 2300>>
    /\ feature # "none"
    /\ numeric = [res |-> "Ok",
                  val |-> [numeric |-> "Value",
                           value |-> [neg |-> TRUE, m |-> <<1, 2, 3>>,
                                      scale |-> 2]]]

(***************************************************************************)
(* Properties of the conversions of a Cell.                                *)
(***************************************************************************)
\* C26: converting Cell::Null to Option<T> gives Ok(None) for every scalar
\* T; converting Cell::Null or Cell::Array(ArrayCell::Null) to
\* Option<Vec<Option<T>>> gives Ok(None); converting any other cell to
\* Option<T> gives what the conversion to T gives, Ok(v) become Ok(Some(v))
\* and an error left as it is.
C26_NullToNone ==
    converted # NoResult
       => LET plain == scalar_try_from(cell_impl, target.T, cell)
          IN  /\ target.wrap = "Option<T>" /\ cell.cell = "Null"
                   => converted = [res |-> "Ok", val |-> <<>>]
              /\ /\ target.wrap = "Option<Vec<Option<T>>>"
                 /\ \/ cell.cell = "Null"
                    \/ cell.cell = "Array" /\ cell.v.array = "Null"
                 => converted = [res |-> "Ok", val |-> <<>>]
              /\ target.wrap = "Option<T>" /\ cell.cell # "Null"
                   => converted = IF plain.res = "Ok"
                                  THEN [res |-> "Ok", val |-> <<plain.val>>]
                                  ELSE plain

\* Cell::Null of table_row.rs, which no conversion to u32 accepts, was
\* converted to Option<u32>
C26_Witness ==
    /\ cell_impl = "table_row"
    /\ cell.cell = "Null"
    /\ target = [wrap |-> "Option<T>", T |-> "u32"]
    /\ converted = [res |-> "Ok", val |-> <<>>]
    /\ scalar_try_from(cell_impl, "u32", cell).res = "Err"

\* the variant and the scalar type that match: the variant holds a value
\* of the type (in table_row.rs a TimeStamp holds the text of one)
Matching ==
    IF cell_impl = "conversions"
    THEN {<<"Bool", "bool">>, <<"String", "String">>, <<"I16", "i16">>,
          <<"I32", "i32">>, <<"U32", "u32">>, <<"I64", "i64">>,
          <<"F32", "f32">>, <<"F64", "f64">>, <<"Numeric", "PgNumeric">>,
          <<"Date", "NaiveDate">>, <<"Time", "NaiveTime">>,
          <<"TimeStamp", "NaiveDateTime">>, <<"TimeStampTz", "DateTimeUtc">>,
          <<"Uuid", "Uuid">>, <<"Json", "Json">>, <<"Bytes", "VecU8">>}
    ELSE {<<"Bool", "bool">>, <<"I32", "i32">>, <<"I64", "i64">>,
          <<"String", "String">>, <<"String", "CowStr">>,
          <<"TimeStamp", "NaiveDateTime">>, <<"TimeStamp", "DateTimeUtc">>,
          <<"Bytes", "VecU8">>, <<"Uuid", "Uuid">>}

\* the conversions across variants that are documented
Documented ==
    {<<"I32", "u32">>, <<"I64", "u64">>, <<"String", "Uuid">>,
     <<"Bytes", "Uuid">>}

\* C27: the conversion of a cell of variant V to a scalar type T that does
\* not match V returns an error and no value, but for the documented
\* conversions: in table_row.rs an I32 gives the u32 and an I64 the u64 of
\* the same bits, and a String or the Bytes of a UTF-8 text give a Uuid
\* when the text is one and an error when it is not.
C27_MismatchFails ==
    converted # NoResult /\ target.wrap = "T"
       => LET pair == <<cell.cell, target.T>>
          IN  /\ pair \notin Matching \cup Documented
                   => converted.res = "Err"
              /\ cell_impl = "conversions" /\ pair \notin Matching
                   => converted.res = "Err"
              /\ cell_impl = "table_row" /\ pair \in {<<"I32", "u32">>,
                                                       <<"I64", "u64">>}
                   => converted = [res |-> "Ok",
                                   val |-> [signed |-> FALSE,
                                            words |-> cell.v.words]]
              /\ cell_impl = "table_row" /\ pair = <<"String", "Uuid">>
                   => (converted.res = "Ok") = (cell.v = UuidText)
              /\ cell_impl = "table_row" /\ pair = <<"Bytes", "Uuid">>
                   => (converted.res = "Ok")
                         = (cell.v.utf8 /\ cell.v.text = UuidText)

\* the I32 cell of -1 was converted to the u32 of the same bits
C27_Witness ==
    /\ cell_impl = "table_row"
    /\ cell = [cell |-> "I32",
               v |-> [signed |-> TRUE, words |-> <<65535, 65535>>]]
    /\ target = [wrap |-> "T", T |-> "u32"]
    /\ converted = [res |-> "Ok",
                    val |-> [signed |-> FALSE, words |-> <<65535, 65535>>]]

(***************************************************************************)
(* Properties of the decoder of COPY rows.                                 *)
(***************************************************************************)
\* the driver has no value for the i-th column: SQL NULL, bytes that do not
\* convert, or no such column
NoValueAt(i) == i > Len(copy_row) \/ copy_row[i].state # "Value"

\* C28: when the value of a column declared non-nullable is absent or does
\* not convert, TableRowConverter::try_from returns a conversion error.
C28_NonNullableError ==
    ( /\ table_row # NoResult
      /\ \E i \in DOMAIN copy_schemas :
            ~copy_schemas[i].nullable /\ NoValueAt(i) )
       => table_row.res = "Err"

\* TableRowConverter::try_from never returns an error: it returns a row or
\* panics, and it panics exactly when a non-nullable column has no value
\* and either the column's type has an arm of its own or the row has no
\* such column
RowOrPanic ==
    table_row # NoResult
       => /\ table_row.res \in {"Ok", "Panic"}
          /\ (table_row.res = "Panic")
                = \E i \in DOMAIN copy_schemas :
                     /\ ~copy_schemas[i].nullable
                     /\ NoValueAt(i)
                     /\ \/ copy_schemas[i].typ \in DOMAIN CopyCellKinds
                        \/ i > Len(copy_row)

\* a row was produced for a non-nullable column of an unlisted type whose
\* value is SQL NULL
NullAsEmptyBytes ==
    /\ table_row = [res |-> "Ok",
                    val |-> [values |-> <<[cell |-> "Bytes", v |-> ""]>>]]
    /\ copy_row = <<[state |-> "Null", bytes |-> ""]>>
    /\ ~copy_schemas[1].nullable

\* the request is one of the pipeline routes
PipelineRequest(r) == r.op \in {"create_pipeline", "update_pipeline"}

\* the request names a source or a sink that another tenant owns
NamesAnotherTenants(r) ==
    \/ \E s \in app_sources : s.id = r.source_id /\ s.tenant_id # r.tenant_id
    \/ \E s \in app_sinks : s.id = r.sink_id /\ s.tenant_id # r.tenant_id

\* every stored pipeline joins a source and a sink of its own tenant
PipelinesWithinTenant ==
    \A p \in app_pipelines :
        /\ \E s \in app_sources :
               s.id = p.source_id /\ s.tenant_id = p.tenant_id
        /\ \E s \in app_sinks : s.id = p.sink_id /\ s.tenant_id = p.tenant_id

TimerArmed == deadline >= 0

\* C30: the fill timer is armed exactly when the in-progress batch holds an
\* item: with an empty batch no timer runs, and a returned batch disarms the
\* timer until the first item of the next batch arrives
C30_TimerIffNonEmpty ==
    /\ [](TimerArmed <=> items # <<>>)
    /\ [][(Len(emitted') > Len(emitted)) => ~TimerArmed']_vars

\* a batch was returned and the first item of the next one has armed the
\* timer anew
C30_Witness ==
    /\ pc \in Polling
    /\ emitted # <<>>
    /\ Len(items) = 1
    /\ deadline = 0

C32_StartLsnGreater ==
    \A i \in CallsOf("get_cdc_stream") :
        LsnLess(resumption_state.last_lsn, calls[i].data)

\* below the greatest LSN the stream is opened above the reported LSN, and at
\* the greatest LSN the run either aborts or opens the stream at LSN 0
StartLsnGreaterBelowMax ==
    /\ resumption_state.last_lsn # LsnMax => C32_StartLsnGreater
    /\ \A i \in CallsOf("get_cdc_stream") :
          resumption_state.last_lsn = LsnMax => calls[i].data = LsnZero

\* C33: CdcEventConverter::try_from returns an event or a conversion error
\* for every message and every schema map, and never aborts, also when a
\* tuple carries fewer data than the schema of its relation has columns
C33_Total == decoded.res \in {"None", "Ok", "Err"}

\* a tuple of the message is shorter than the schema of its relation
ShortTuple ==
    /\ message.rel \in DOMAIN decoder_schemas
    /\ \E t \in {message.new} \cup {message.key[i] : i \in DOMAIN message.key}
                            \cup {message.old[i] : i \in DOMAIN message.old} :
          Len(t) < Len(decoder_schemas[message.rel])

\* the decoder aborts only on an Insert, Update or Delete with a tuple
\* shorter than the schema, and an Insert with such a tuple and no datum
\* that fails to convert does abort
AbortsOnShortTuple ==
    /\ decoded = Panic
          => message.tag \in {"Insert", "Update", "Delete"} /\ ShortTuple
    /\ ( /\ decoded # NoResult
         /\ message.tag = "Insert"
         /\ ShortTuple
         /\ message.new = <<>> )
          => decoded = Panic

\* the port operations of the copy phase and of the CDC phase
CopyPhaseOps == CopyOps \cup {"commit_transaction"}

CdcPhaseOps == {"get_cdc_stream", "write_cdc_events"}

\* C34: a CdcOnly run calls no operation of the copy phase and a
\* TableCopiesOnly run calls no operation of the CDC phase, whatever the
\* resumption state is
C34_ActionRestrictsCalls ==
    \A i \in DOMAIN calls :
        /\ action = "CdcOnly" => calls[i].op \notin CopyPhaseOps
        /\ action = "TableCopiesOnly" => calls[i].op \notin CdcPhaseOps

\* a CdcOnly run wrote events while a table of the catalog was not copied
C34_Witness ==
    /\ action = "CdcOnly"
    /\ table_schemas \ resumption_state.copied_tables # {}
    /\ CallsOf("write_cdc_events") # {}

\* C35: the run stops at the first port call that returns an error: start
\* returns the error and makes no further call, so a failed call is the last
\* call of the run and after a failure in the copy phase CDC is not opened
C35_FailStop ==
    \A i \in DOMAIN calls :
        ~calls[i].ok => /\ i = Len(calls)
                        /\ pc = "failed"

\* a Both run whose write_table_rows failed: it made no call after that one
C35_Witness ==
    /\ action = "Both"
    /\ pc = "failed"
    /\ calls # <<>>
    /\ Last(calls).op = "write_table_rows"
    /\ ~Last(calls).ok

\* the positions of start after copy_tables has returned Ok
AfterCopyPhase == {"cdc_open", "cdc", "cdc_body", "done", "panicked"}

\* the run failed inside the loop of copy_tables: a call of the loop returned
\* an error, or a row of a batch was an error
CopyOfTableFailed ==
    /\ pc = "failed"
    /\ calls # <<>>
    /\ Last(calls).op \in CopyOps

\* C36: in a Both or TableCopiesOnly run commit_transaction is called once
\* when the copy phase is through without error, also when every table of
\* the catalog was copied before and no COPY stream was opened, and is not
\* called when the copy of a table failed
C36_CommitOnce ==
    action # "CdcOnly"
       => /\ Cardinality(CallsOf("commit_transaction")) <= 1
          /\ pc \in AfterCopyPhase
                => Cardinality(CallsOf("commit_transaction")) = 1
          /\ CopyOfTableFailed => CallsOf("commit_transaction") = {}
          /\ CallsOf("commit_transaction") # {}
                => \A t \in table_schemas :
                      \/ t \in resumption_state.copied_tables
                      \/ Succeeded("table_copied", t)

\* every table of the catalog was copied before: the run opened no COPY
\* stream and committed
C36_Witness ==
    /\ action # "CdcOnly"
    /\ table_schemas # {}
    /\ table_schemas \subseteq resumption_state.copied_tables
    /\ CallsOf("get_table_copy_stream") = {}
    /\ Succeeded("commit_transaction", 0)

\* the cell the decoder owes to a nullable column: Null when the driver has
\* no value of the column's type for it; in the arm of the unlisted types,
\* where every value converts, Null when there are no bytes
NullableCell(i) ==
    IF copy_schemas[i].typ \in DOMAIN CopyCellKinds
    THEN IF NoValueAt(i) THEN Cell("Null", "")
         ELSE Cell(CopyCellKinds[copy_schemas[i].typ], copy_row[i].bytes)
    ELSE IF i > Len(copy_row) \/ copy_row[i].bytes = ""
         THEN Cell("Null", "")
         ELSE Cell("Bytes", copy_row[i].bytes)

SameButSecret ==
    IF diag_in.kind = "SinkConfig"
    THEN [diag_in.a EXCEPT !.service_account_key = <<>>]
            = [diag_in.b EXCEPT !.service_account_key = <<>>]
    ELSE [diag_in.a EXCEPT !.password = <<>>]
            = [diag_in.b EXCEPT !.password = <<>>]

\* C39: two SinkConfig values that differ in service_account_key only have
\* the same Debug output, and two DatabaseSettings that differ in password
\* only have the same Display output
C39_SecretsNotShown ==
    (diag_out # <<>> /\ SameButSecret) => diag_out[1] = diag_out[2]

\* two sink configurations with different keys were formatted alike
C39_Witness ==
    /\ diag_in.kind = "SinkConfig"
    /\ diag_in.a.service_account_key # diag_in.b.service_account_key
    /\ SameButSecret
    /\ diag_out # <<>>
    /\ diag_out[1] = diag_out[2]

====
